---- MODULE Spec2Model ----
(***************************************************************************)
(* Model of the D-Bus <-> native-messaging bridge of                       *)
(* src/research/dbus-monitor-poc.py (classes ChatGPTBuddyDBusMonitor and   *)
(* ChatGPTBuddyDBusService).                                               *)
(*                                                                         *)
(* Two threads run the object's methods: "main" executes run(), the GLib   *)
(* loop and, inside it, the bus callbacks (on_automation_signal,           *)
(* on_firefox_signal, ExecuteAutomation); "reader" executes                *)
(* read_native_messages and the handlers it dispatches to.  Every access   *)
(* to a field shared by the two threads (stdout, message_queue, running)   *)
(* is a step of its own, because the code takes no lock anywhere.          *)
(*                                                                         *)
(* Bytes are naturals 0..255, JSON texts are sequences of bytes, and       *)
(* decoded JSON values are tagged records [t |-> tag, v |-> value] with    *)
(* tag in {"str","num","arr","obj"}; strings are kept as byte sequences.   *)
(***************************************************************************)
EXTENDS Integers, Sequences, FiniteSets, TLC

(***************************************************************************)
(* Bounds of the model.                                                    *)
(***************************************************************************)
\* number of bus events (signals, ExecuteAutomation calls) the bus loop serves
MaxBusEvents == 1
\* number of log_message calls made in SpecLog and SpecLogSeq
MaxLogCalls == 150

\* the longest args list handed to emit_automation_signal
MaxArgs == 2

\* the longest string in a message of the frame round trip
MaxStrLen == 2

(***************************************************************************)
(* Program constants.                                                      *)
(***************************************************************************)
\* log_message: "if len(self.message_queue) > 100"
LogCapacity == 100
\* log_message: "self.message_queue[-50:]"
LogKeep == 50
\* struct '<I': number of bytes of the length prefix
PrefixLen == 4
\* the ceiling on a declared frame length that the specification asks for
\* (16 MiB); the code has no such constant
MaxFrameLen == 16777216

Threads == {"main", "reader"}

(***************************************************************************)
(* Sequence helpers.                                                       *)
(***************************************************************************)
Min(a, b) == IF a <= b THEN a ELSE b

\* s[:n]
Take(s, n) == SubSeq(s, 1, Min(n, Len(s)))

\* s[n:]
Drop(s, n) == SubSeq(s, Min(n, Len(s)) + 1, Len(s))

\* s[-n:]
LastN(s, n) == SubSeq(s, Len(s) - Min(n, Len(s)) + 1, Len(s))

(***************************************************************************)
(* struct.pack('<I', n) and struct.unpack('<I', b)[0].                     *)
(***************************************************************************)
Pack(n) ==
    << n % 256, (n \div 256) % 256, (n \div 65536) % 256, (n \div 16777216) % 256 >>

\* struct.unpack raises struct.error unless it is given exactly 4 bytes
UnpackOk(b) == Len(b) = PrefixLen

Unpack(b) == b[1] + 256 * b[2] + 65536 * b[3] + 16777216 * b[4]

(***************************************************************************)
(* JSON texts the peer sends, as UTF-8 bytes.                              *)
(***************************************************************************)
\* {"type":"PING"}   (15 bytes)
TxtPing ==
    <<123, 34, 116, 121, 112, 101, 34, 58, 34, 80, 73, 78, 71, 34, 125>>

\* {"type":"GET_STATUS"}   (21 bytes)
TxtGetStatus ==
    <<123, 34, 116, 121, 112, 101, 34, 58, 34, 71, 69, 84, 95, 83, 84, 65, 84,
      85, 83, 34, 125>>

\* {"type":"SEND_DBUS_SIGNAL","signal":{"member":"X","args":["a"]}}   (64 bytes)
TxtSendSignal ==
    <<123, 34, 116, 121, 112, 101, 34, 58, 34, 83, 69, 78, 68, 95, 68, 66, 85,
      83, 95, 83, 73, 71, 78, 65, 76, 34, 44, 34, 115, 105, 103, 110, 97, 108,
      34, 58, 123, 34, 109, 101, 109, 98, 101, 114, 34, 58, 34, 88, 34, 44, 34,
      97, 114, 103, 115, 34, 58, 91, 34, 97, 34, 93, 125, 125>>

\* {"type":"NOPE"}   (15 bytes)
TxtUnknownType ==
    <<123, 34, 116, 121, 112, 101, 34, 58, 34, 78, 79, 80, 69, 34, 125>>

\* {}   (a JSON object without a "type")
TxtEmptyObject == <<123, 125>>

\* {   (not JSON)
TxtOpenBrace == <<123>>

\* []   (JSON, but not an object)
TxtEmptyArray == <<91, 93>>

\* the single byte 0xFF, which is not UTF-8
TxtBadUtf8 == <<255>>

(***************************************************************************)
(* Strings of the program, as bytes.                                       *)
(***************************************************************************)
\* "type"
S_type == <<116, 121, 112, 101>>
\* "signal"
S_signal == <<115, 105, 103, 110, 97, 108>>
\* "member"
S_member == <<109, 101, 109, 98, 101, 114>>
\* "args"
S_args == <<97, 114, 103, 115>>
\* "PING"
S_PING == <<80, 73, 78, 71>>
\* "GET_STATUS"
S_GET_STATUS == <<71, 69, 84, 95, 83, 84, 65, 84, 85, 83>>
\* "SEND_DBUS_SIGNAL"
S_SEND_DBUS_SIGNAL ==
    <<83, 69, 78, 68, 95, 68, 66, 85, 83, 95, 83, 73, 71, 78, 65, 76>>
\* "AutomationCompleted"
S_AutomationCompleted ==
    <<65, 117, 116, 111, 109, 97, 116, 105, 111, 110, 67, 111, 109, 112, 108,
      101, 116, 101, 100>>
\* "AutomationEvent"
S_AutomationEvent ==
    <<65, 117, 116, 111, 109, 97, 116, 105, 111, 110, 69, 118, 101, 110, 116>>
\* "unknown"
S_unknown == <<117, 110, 107, 110, 111, 119, 110>>

(***************************************************************************)
(* Decoded JSON values.                                                    *)
(***************************************************************************)
JStr(b) == [t |-> "str", v |-> b]
JNum(n) == [t |-> "num", v |-> n]
JArr(items) == [t |-> "arr", v |-> items]
\* an object is the sequence of its <<key bytes, value>> members, in order
JObj(members) == [t |-> "obj", v |-> members]
JBool(b) == [t |-> "bool", v |-> b]

\* true
TxtTrue == <<116, 114, 117, 101>>
\* false
TxtFalse == <<102, 97, 108, 115, 101>>

(***************************************************************************)
(* json.loads(message_bytes.decode('utf-8')).                              *)
(*                                                                         *)
(* The decoder covers objects, arrays, strings with their escapes, the     *)
(* literals true and false, non-negative integers, and whitespace between  *)
(* tokens.  A string is the sequence of its code points (below 65536).     *)
(* Every text of the model outside this grammar is outside JSON as well    *)
(* (see Scripts).  A parse result is [ok, val, next]: next is the index of *)
(* the first byte not consumed.                                            *)
(***************************************************************************)
ParseFail == [ok |-> FALSE, val |-> JNum(0), next |-> 0]

IsDigit(c) == c >= 48 /\ c <= 57

\* space, tab, line feed, carriage return
IsWs(c) == c \in {32, 9, 10, 13}

RECURSIVE SkipWs(_, _)
\* index of the first byte from s[i] on that is not whitespace
SkipWs(s, i) == IF i <= Len(s) /\ IsWs(s[i]) THEN SkipWs(s, i + 1) ELSE i

\* a byte that may stand unescaped inside a JSON string
IsStringChar(c) == c >= 32 /\ c # 34 /\ c # 92

IsHex(c) == IsDigit(c) \/ (c >= 97 /\ c <= 102) \/ (c >= 65 /\ c <= 70)

HexVal(c) == IF IsDigit(c) THEN c - 48 ELSE IF c >= 97 THEN c - 87 ELSE c - 55

\* the characters that may follow a backslash, besides u
IsEscape(c) == c \in {34, 92, 47, 98, 102, 110, 114, 116}

\* the character a backslash and c stand for
Unescape(c) ==
    CASE c = 98 -> 8
      [] c = 102 -> 12
      [] c = 110 -> 10
      [] c = 114 -> 13
      [] c = 116 -> 9
      [] OTHER -> c

RECURSIVE ScanString(_, _, _)
\* the rest of a string from s[j] on, acc being the characters decoded so far
ScanString(s, j, acc) ==
    IF j > Len(s) THEN ParseFail
    ELSE IF s[j] = 34 THEN [ok |-> TRUE, val |-> JStr(acc), next |-> j + 1]
    ELSE IF IsStringChar(s[j]) THEN ScanString(s, j + 1, Append(acc, s[j]))
    ELSE IF s[j] # 92 \/ j + 1 > Len(s) THEN ParseFail
    ELSE IF IsEscape(s[j + 1])
         THEN ScanString(s, j + 2, Append(acc, Unescape(s[j + 1])))
    ELSE IF s[j + 1] = 117 /\ j + 5 <= Len(s) /\ \A k \in 2..5 : IsHex(s[j + k])
         THEN ScanString(s, j + 6,
                         Append(acc, 4096 * HexVal(s[j + 2]) + 256 * HexVal(s[j + 3])
                                         + 16 * HexVal(s[j + 4]) + HexVal(s[j + 5])))
    ELSE ParseFail

ParseString(s, i) ==
    IF i > Len(s) \/ s[i] # 34 THEN ParseFail
    ELSE ScanString(s, i + 1, << >>)

RECURSIVE ScanDigits(_, _, _)
\* <<value, next>> of the digits from s[j] on, acc being the value so far
ScanDigits(s, j, acc) ==
    IF j <= Len(s) /\ IsDigit(s[j])
    THEN ScanDigits(s, j + 1, 10 * acc + (s[j] - 48))
    ELSE <<acc, j>>

ParseNumber(s, i) ==
    IF i > Len(s) \/ ~IsDigit(s[i]) THEN ParseFail
    ELSE IF s[i] = 48 THEN [ok |-> TRUE, val |-> JNum(0), next |-> i + 1]
    ELSE LET r == ScanDigits(s, i, 0)
         IN  [ok |-> TRUE, val |-> JNum(r[1]), next |-> r[2]]

\* true, false
ParseLiteral(s, i) ==
    IF i + 3 <= Len(s) /\ SubSeq(s, i, i + 3) = TxtTrue
    THEN [ok |-> TRUE, val |-> JBool(TRUE), next |-> i + 4]
    ELSE IF i + 4 <= Len(s) /\ SubSeq(s, i, i + 4) = TxtFalse
    THEN [ok |-> TRUE, val |-> JBool(FALSE), next |-> i + 5]
    ELSE ParseFail

RECURSIVE DictSetFrom(_, _, _, _)
\* members with the value of key replaced by val from index i on, or appended
DictSetFrom(members, i, key, val) ==
    IF i > Len(members) THEN Append(members, <<key, val>>)
    ELSE IF members[i][1] = key THEN [members EXCEPT ![i] = <<key, val>>]
    ELSE DictSetFrom(members, i + 1, key, val)

\* d[key] = val on the members of a dict: a key occurs once, at its first position
DictSet(members, key, val) == DictSetFrom(members, 1, key, val)

RECURSIVE ParseValue(_, _)
RECURSIVE ParseItems(_, _, _)
RECURSIVE ParseMembers(_, _, _)

\* the items of an array, s[i] being the first byte after "[" or after ","
ParseItems(s, i, acc) ==
    LET r == ParseValue(s, i)
        n == SkipWs(s, r.next)
    IN  IF ~r.ok \/ n > Len(s) THEN ParseFail
        ELSE IF s[n] = 93
             THEN [ok |-> TRUE, val |-> JArr(Append(acc, r.val)), next |-> n + 1]
        ELSE IF s[n] = 44
             THEN ParseItems(s, n + 1, Append(acc, r.val))
        ELSE ParseFail

\* the members of an object, s[i] being the first byte after "{" or after ","
ParseMembers(s, i, acc) ==
    LET k == ParseString(s, SkipWs(s, i))
        c == SkipWs(s, k.next)
    IN  IF ~k.ok \/ c > Len(s) \/ s[c] # 58 THEN ParseFail
        ELSE LET r == ParseValue(s, c + 1)
                 n == SkipWs(s, r.next)
             IN  IF ~r.ok \/ n > Len(s) THEN ParseFail
                 ELSE IF s[n] = 125
                      THEN [ok |-> TRUE,
                            val |-> JObj(DictSet(acc, k.val.v, r.val)),
                            next |-> n + 1]
                 ELSE IF s[n] = 44
                      THEN ParseMembers(s, n + 1, DictSet(acc, k.val.v, r.val))
                 ELSE ParseFail

ParseValue(s, i) ==
    LET j == SkipWs(s, i)
        e == SkipWs(s, j + 1)
    IN  IF j > Len(s) THEN ParseFail
        ELSE IF s[j] = 123
             THEN IF e <= Len(s) /\ s[e] = 125
                  THEN [ok |-> TRUE, val |-> JObj(<< >>), next |-> e + 1]
                  ELSE ParseMembers(s, j + 1, << >>)
        ELSE IF s[j] = 91
             THEN IF e <= Len(s) /\ s[e] = 93
                  THEN [ok |-> TRUE, val |-> JArr(<< >>), next |-> e + 1]
                  ELSE ParseItems(s, j + 1, << >>)
        ELSE IF s[j] = 34 THEN ParseString(s, j)
        ELSE IF s[j] \in {116, 102} THEN ParseLiteral(s, j)
        ELSE ParseNumber(s, j)

\* bytes.decode('utf-8') raises UnicodeDecodeError on a byte that no UTF-8
\* sequence contains (0xF8..0xFF); bytes below 0x80 decode to themselves
Utf8Ok(b) == \A i \in 1..Len(b) : b[i] < 128

\* json.loads(b.decode('utf-8')): the value, or the exception raised
JsonLoads(b) ==
    IF ~Utf8Ok(b) THEN [err |-> "UnicodeDecodeError", val |-> JNum(0)]
    ELSE LET r == ParseValue(b, 1)
         IN  IF r.ok /\ SkipWs(b, r.next) = Len(b) + 1
             THEN [err |-> "none", val |-> r.val]
             ELSE [err |-> "JSONDecodeError", val |-> JNum(0)]

RECURSIVE DictGetFrom(_, _, _, _)
\* the value of the member of members[1..i] whose key is key, else default
DictGetFrom(members, i, key, default) ==
    IF i = 0 THEN default
    ELSE IF members[i][1] = key THEN members[i][2]
    ELSE DictGetFrom(members, i - 1, key, default)

\* d.get(key, default) of a dict d
DictGet(d, key, default) == DictGetFrom(d.v, Len(d.v), key, default)

(***************************************************************************)
(* json.dumps(v) and str(v) of a decoded value, as bytes.                  *)
(***************************************************************************)
RECURSIVE Digits(_)
\* the decimal digits of n
Digits(n) == IF n < 10 THEN << 48 + n >> ELSE Digits(n \div 10) \o << 48 + (n % 10) >>

HexDigit(n) == IF n < 10 THEN 48 + n ELSE 87 + n

\* EscapeChar with every character written as it is
EscapeCharRaw(c) == << c >>

\* one character of a string in the output of json.dumps (ensure_ascii): the
\* quote, the backslash and the control characters by their escapes, printable
\* ASCII as it is, any other character as \uXXXX
EscapeChar(c) ==
    CASE c = 34 -> <<92, 34>>
      [] c = 92 -> <<92, 92>>
      [] c = 10 -> <<92, 110>>
      [] c = 13 -> <<92, 114>>
      [] c = 9 -> <<92, 116>>
      [] c = 8 -> <<92, 98>>
      [] c = 12 -> <<92, 102>>
      [] OTHER ->
           IF c >= 32 /\ c <= 126 THEN << c >>
           ELSE <<92, 117, HexDigit(c \div 4096), HexDigit((c \div 256) % 16),
                  HexDigit((c \div 16) % 16), HexDigit(c % 16)>>

RECURSIVE JsonEscape(_)
\* the characters of a string as json.dumps writes them between the quotes
JsonEscape(str) ==
    IF str = << >> THEN << >> ELSE EscapeChar(Head(str)) \o JsonEscape(Tail(str))

RECURSIVE JsonDumps(_)
RECURSIVE JsonDumpsItems(_, _)
RECURSIVE JsonDumpsMembers(_, _)

\* the items from index i on, separated by ", "
JsonDumpsItems(items, i) ==
    IF i > Len(items) THEN << >>
    ELSE (IF i > 1 THEN <<44, 32>> ELSE << >>)
         \o JsonDumps(items[i]) \o JsonDumpsItems(items, i + 1)

\* the members from index i on, as "key": value separated by ", "
JsonDumpsMembers(members, i) ==
    IF i > Len(members) THEN << >>
    ELSE (IF i > 1 THEN <<44, 32>> ELSE << >>)
         \o <<34>> \o JsonEscape(members[i][1]) \o <<34, 58, 32>>
         \o JsonDumps(members[i][2]) \o JsonDumpsMembers(members, i + 1)

JsonDumps(v) ==
    IF v.t = "str" THEN <<34>> \o JsonEscape(v.v) \o <<34>>
    ELSE IF v.t = "num" THEN Digits(v.v)
    ELSE IF v.t = "bool" THEN (IF v.v THEN TxtTrue ELSE TxtFalse)
    ELSE IF v.t = "arr" THEN <<91>> \o JsonDumpsItems(v.v, 1) \o <<93>>
    ELSE <<123>> \o JsonDumpsMembers(v.v, 1) \o <<125>>

RECURSIVE PyRepr(_)
RECURSIVE PyReprItems(_, _)
RECURSIVE PyReprMembers(_, _)

PyReprItems(items, i) ==
    IF i > Len(items) THEN << >>
    ELSE (IF i > 1 THEN <<44, 32>> ELSE << >>)
         \o PyRepr(items[i]) \o PyReprItems(items, i + 1)

PyReprMembers(members, i) ==
    IF i > Len(members) THEN << >>
    ELSE (IF i > 1 THEN <<44, 32>> ELSE << >>)
         \o <<39>> \o members[i][1] \o <<39, 58, 32>>
         \o PyRepr(members[i][2]) \o PyReprMembers(members, i + 1)

\* repr(v): strings in single quotes (the strings of the model hold no quote)
PyRepr(v) ==
    IF v.t = "str" THEN <<39>> \o v.v \o <<39>>
    ELSE IF v.t = "num" THEN Digits(v.v)
    ELSE IF v.t = "bool" THEN (IF v.v THEN <<84, 114, 117, 101>> ELSE <<70, 97, 108, 115, 101>>)
    ELSE IF v.t = "arr" THEN <<91>> \o PyReprItems(v.v, 1) \o <<93>>
    ELSE <<123>> \o PyReprMembers(v.v, 1) \o <<125>>

\* str(v): a string is itself, anything else its repr
PyStr(v) == IF v.t = "str" THEN v.v ELSE PyRepr(v)

\* len(v) raises TypeError on a number or a bool
PyLenOk(v) == v.t \notin {"num", "bool"}

PyLen(v) == Len(v.v)

\* v[i] (i counted from 0) raises KeyError on a dict, whose keys are strings
PyIndexOk(v) == v.t \in {"str", "arr"}

PyIndex(v, i) == IF v.t = "str" THEN JStr(<< v.v[i + 1] >>) ELSE v.v[i + 1]

(***************************************************************************)
(* ChatGPTBuddyDBusService.emit_automation_signal(signal_name, args): the  *)
(* signal emitted, or the exception raised.  A signal declared with        *)
(* signature 's' or 'ss' takes strings only: emitting it with another      *)
(* value raises TypeError.                                                 *)
(***************************************************************************)
Emission(member, args) ==
    [err |-> "none", kind |-> "signal", member |-> member, args |-> args]

EmitRaises(e) == [err |-> e, kind |-> "signal", member |-> "", args |-> << >>]

\* GenericEvent with the arguments rendered by str() instead of json.dumps()
GenericEventStr(signal_name, args) ==
    IF signal_name.t # "str" THEN EmitRaises("TypeError")
    ELSE Emission("AutomationEvent", << signal_name.v, PyStr(args) >>)

GenericEvent(signal_name, args) ==
    IF signal_name.t # "str" THEN EmitRaises("TypeError")
    ELSE Emission("AutomationEvent", << signal_name.v, JsonDumps(args) >>)

emit_automation_signal(signal_name, args) ==
    IF signal_name.t = "str" /\ signal_name.v = S_AutomationCompleted
    THEN IF ~PyLenOk(args) THEN EmitRaises("TypeError")
         ELSE IF PyLen(args) >= 1
              THEN IF ~PyIndexOk(args) THEN EmitRaises("KeyError")
                   ELSE Emission("AutomationCompleted", << PyStr(PyIndex(args, 0)) >>)
         ELSE GenericEvent(signal_name, args)
    ELSE IF signal_name.t = "str" /\ signal_name.v = S_AutomationEvent
    THEN IF ~PyLenOk(args) THEN EmitRaises("TypeError")
         ELSE IF PyLen(args) >= 2
              THEN IF ~PyIndexOk(args) THEN EmitRaises("KeyError")
                   ELSE Emission("AutomationEvent",
                                 << PyStr(PyIndex(args, 0)), PyStr(PyIndex(args, 1)) >>)
         ELSE GenericEvent(signal_name, args)
    ELSE GenericEvent(signal_name, args)

(***************************************************************************)
(* What the peer writes on the bridge's stdin.  A frame is the 4 bytes of  *)
(* its length prefix and the bytes of its body; a script is the sequence   *)
(* of frames one peer sends before it may close the stream.                *)
(***************************************************************************)
\* a frame whose prefix is the length of its body
Frame(body) == [hdr |-> Pack(Len(body)), body |-> body]

\* a frame whose prefix declares n bytes, whatever its body
FrameDeclaring(n, body) == [hdr |-> Pack(n), body |-> body]

\* a stream that ends inside a length prefix
Fragment(bytes) == [hdr |-> bytes, body |-> << >>]

Scripts ==
    << \* 1: one PING
       << Frame(TxtPing) >>,
       \* 2: GET_STATUS, then PING
       << Frame(TxtGetStatus), Frame(TxtPing) >>,
       \* 3: SEND_DBUS_SIGNAL
       << Frame(TxtSendSignal) >>,
       \* 4: an object without "type"
       << Frame(TxtEmptyObject) >>,
       \* 5: a body that is not JSON, then PING
       << Frame(TxtOpenBrace), Frame(TxtPing) >>,
       \* 6: a body that is not UTF-8, then PING
       << Frame(TxtBadUtf8), Frame(TxtPing) >>,
       \* 7: a body that is JSON but not an object, then PING
       << Frame(TxtEmptyArray), Frame(TxtPing) >>,
       \* 8: a frame of length 0, then PING
       << Frame(<< >>), Frame(TxtPing) >>,
       \* 9: a prefix declaring 3 bytes before a body of 2, then PING
       << FrameDeclaring(3, TxtEmptyObject), Frame(TxtPing) >>,
       \* 10: a prefix declaring 16 bytes before a body of 15, the last frame
       << FrameDeclaring(16, TxtPing) >>,
       \* 11: a prefix declaring 32 MiB before a body of 2, the last frame
       << FrameDeclaring(2 * MaxFrameLen, TxtEmptyObject) >>,
       \* 12: a stream that ends after 2 bytes of a length prefix
       << Fragment(<<15, 0>>) >>,
       \* 13: a message of a type the bridge does not know, then PING
       << Frame(TxtUnknownType), Frame(TxtPing) >>,
       \* 14: GET_STATUS, a message of a type the bridge does not know (which
       \* it logs), GET_STATUS again
       << Frame(TxtGetStatus), Frame(TxtUnknownType), Frame(TxtGetStatus) >> >>

ScriptIds == 1..Len(Scripts)

\* the scripts of well-formed frames, which the running bridge is checked with
BridgeScriptIds == 1..4

RECURSIVE Flatten(_)
\* the bytes of a sequence of frames
Flatten(frames) ==
    IF frames = << >> THEN << >>
    ELSE Head(frames).hdr \o Head(frames).body \o Flatten(Tail(frames))

\* the writes the peer makes for script i, in order: one byte per write, or
\* one frame per write
PeerWrites(i, bytewise) ==
    IF bytewise
    THEN LET bytes == Flatten(Scripts[i])
         IN  [k \in 1..Len(bytes) |-> << bytes[k] >>]
    ELSE [k \in 1..Len(Scripts[i]) |-> Scripts[i][k].hdr \o Scripts[i][k].body]

\* a frame the peer built correctly: 4 prefix bytes that give the length of the body
WellFramed(f) == Len(f.hdr) = PrefixLen /\ Unpack(f.hdr) = Len(f.body)

(***************************************************************************)
(* time.time() in an outbound message: the model keeps no clock for the    *)
(* frames, every timestamp of a frame is this token.  The timestamps of    *)
(* log entries are logical: see logClock.                                  *)
(***************************************************************************)
TimeNow == "time.time()"

(***************************************************************************)
(* State.                                                                  *)
(***************************************************************************)
VARIABLES
    pc,             \* [Threads -> label]: where each thread is
    stack,          \* [Threads -> Seq(label)]: return addresses of its calls
    running,        \* self.running
    message_queue,  \* self.message_queue
    service,        \* hasattr(self, 'service')
    stdout,         \* the writes made on self.stdout, in order
    stdoutBroken,   \* the peer has closed the reading end of the bridge's stdout
    stdinBuf,       \* bytes written by the peer and not yet read from self.stdin
    stdinEOF,       \* the peer has closed the writing end of the bridge's stdin
    script,         \* the script the peer follows
    peerTodo,       \* the writes the peer has still to make
    message,        \* [Threads -> message]: argument of send_to_extension
    logtext,        \* [Threads -> text]: argument of log_message
    newq,           \* [Threads -> list]: value of self.message_queue[-50:]
    length,         \* read_native_messages: length
    inmsg,          \* read_native_messages: the decoded message
    rexit,          \* how read_native_messages ended, "none" while it runs
    busOut,         \* what the bridge put on the bus: signals and method returns
    busEvents,      \* number of bus events dispatched by the GLib loop
    ev,             \* the arguments of the bus callback in progress
    logClock        \* time.time() in log_message: the number of entries appended so far

vars ==
    << pc, stack, running, message_queue, service, stdout, stdoutBroken,
       stdinBuf, stdinEOF, script, peerTodo, message, logtext, newq, length,
       inmsg, rexit, busOut, busEvents, ev, logClock >>

\* the variables of the peer's side of stdin
peerVars == << stdinBuf, stdinEOF, peerTodo >>

\* the locals of the reader thread
readerVars == << length, inmsg, rexit >>

NoMessage == [type |-> "none"]

NoText == [text |-> "", arg |-> << >>]

\* a log text: the literal part of the f-string and the value formatted into it
Text(t, a) == [text |-> t, arg |-> a]

\* the object with the fields that __init__ assigns (lines 41-42 and 96-102):
\* an empty message_queue, running = True, the reader thread started; run()
\* is about to be called.  The construction itself (setup_dbus,
\* setup_native_messaging and their log calls) is not part of this
\* specification; service tells whether setup_dbus_service set self.service
Init ==
    /\ pc = [t \in Threads |-> IF t = "main" THEN "run" ELSE "r_while"]
    /\ stack = [t \in Threads |-> << >>]
    /\ running = TRUE
    /\ message_queue = << >>
    /\ service \in BOOLEAN
    /\ stdout = << >>
    /\ stdoutBroken = FALSE
    /\ stdinBuf = << >>
    /\ stdinEOF = FALSE
    /\ script \in BridgeScriptIds
    /\ peerTodo = PeerWrites(script, FALSE)
    /\ message = [t \in Threads |-> NoMessage]
    /\ logtext = [t \in Threads |-> NoText]
    /\ newq = [t \in Threads |-> << >>]
    /\ length = 0
    /\ inmsg = JNum(0)
    /\ rexit = "none"
    /\ busOut = << >>
    /\ busEvents = 0
    /\ ev = << >>
    /\ logClock = 0

\* the process has ended, after run() ("exited") or by an exception or a
\* sys.exit(1) in the construction ("aborted"): no thread takes a step any more
Exited == pc["main"] \in {"exited", "aborted"}

(***************************************************************************)
(* Calls.  A call pushes the label to return to; a return pops it.         *)
(***************************************************************************)
Call(t, entry, ret) ==
    /\ pc' = [pc EXCEPT ![t] = entry]
    /\ stack' = [stack EXCEPT ![t] = << ret >> \o @]

Return(t) ==
    /\ pc' = [pc EXCEPT ![t] = Head(stack[t])]
    /\ stack' = [stack EXCEPT ![t] = Tail(@)]

(***************************************************************************)
(* Where the main thread is in __init__ and run(): its own label or,       *)
(* inside a call, the label the outermost call returns to.                 *)
(***************************************************************************)
MainContext ==
    IF stack["main"] = << >> THEN pc["main"]
    ELSE stack["main"][Len(stack["main"])]

\* the labels of setup_dbus and setup_dbus_service, which __init__ calls at
\* line 39, before it assigns self.message_queue and self.running
SetupDbusLabels ==
    { "init", "sd_sub_auto", "sd_sub_ff", "sd_service", "svc_logged",
      "svc_except", "svc_return", "sd_except", "sd_exit" }

\* self.message_queue exists: __init__ has executed line 41
QueueAssigned == MainContext \notin SetupDbusLabels

\* where an exception raised by the log_message call that returns to ret is
\* handled: a call in the try block of setup_dbus_service goes to its except
\* clause (line 91); a call in that except clause, or in the except clause
\* of the Firefox subscription (line 67), is inside the try block of
\* setup_dbus and goes to its except clause (line 75); a call in that
\* except clause is handled nowhere: the exception leaves __init__ and ends
\* the process
ExceptHandler(ret) ==
    CASE ret = "svc_logged" -> "svc_except"
      [] ret \in {"sd_service", "svc_return"} -> "sd_except"
      [] OTHER -> "aborted"

(***************************************************************************)
(* log_message(message), thread t.  The write to stderr has no effect on   *)
(* the state of the model.  The four accesses to self.message_queue are    *)
(* four steps: append, len, slice, assignment.                             *)
(***************************************************************************)
\* the entry appended at time n
LogEntry(text, n) == [type |-> "LOG_MESSAGE", message |-> text, timestamp |-> n]

\* self.message_queue.append({...}); the attribute lookup raises
\* AttributeError while self.message_queue is not assigned, and the
\* exception leaves log_message
LogAppend(t) ==
    /\ pc[t] = "log_append"
    /\ ~Exited
    /\ IF QueueAssigned
       THEN /\ logClock' = logClock + 1
            /\ message_queue' = Append(message_queue, LogEntry(logtext[t], logClock'))
            /\ pc' = [pc EXCEPT ![t] = "log_check"]
            /\ UNCHANGED stack
       ELSE /\ pc' = [pc EXCEPT ![t] = ExceptHandler(Head(stack[t]))]
            /\ stack' = [stack EXCEPT ![t] = Tail(@)]
            /\ UNCHANGED << message_queue, logClock >>
    /\ UNCHANGED << running, service, stdout, stdoutBroken, peerVars,
                    script, message, logtext, newq, readerVars, busOut,
                    busEvents, ev >>

\* if len(self.message_queue) > 100: (else the method returns)
LogCheck(t) ==
    /\ pc[t] = "log_check"
    /\ ~Exited
    /\ IF Len(message_queue) > LogCapacity
       THEN /\ pc' = [pc EXCEPT ![t] = "log_slice"]
            /\ UNCHANGED stack
       ELSE Return(t)
    /\ UNCHANGED << running, message_queue, service, stdout, stdoutBroken,
                    peerVars, script, message, logtext, newq, readerVars,
                    busOut, busEvents, ev, logClock >>

\* self.message_queue[-50:]
LogSlice(t) ==
    /\ pc[t] = "log_slice"
    /\ ~Exited
    /\ newq' = [newq EXCEPT ![t] = LastN(message_queue, LogKeep)]
    /\ pc' = [pc EXCEPT ![t] = "log_store"]
    /\ UNCHANGED << stack, running, message_queue, service, stdout,
                    stdoutBroken, peerVars, script, message, logtext,
                    readerVars, busOut, busEvents, ev, logClock >>

\* self.message_queue = <the slice>
LogStore(t) ==
    /\ pc[t] = "log_store"
    /\ ~Exited
    /\ message_queue' = newq[t]
    /\ newq' = [newq EXCEPT ![t] = << >>]
    /\ Return(t)
    /\ UNCHANGED << running, service, stdout, stdoutBroken, peerVars, script,
                    message, logtext, readerVars, busOut, busEvents, ev,
                    logClock >>

(***************************************************************************)
(* send_to_extension(message), thread t: two writes on self.stdout, each   *)
(* atomic, and a flush.  A write on a broken stdout raises; the except     *)
(* clause logs the failure and the method returns normally.                *)
(***************************************************************************)
\* one write on stdout: thread t wrote the length prefix or the payload of m
Chunk(t, part, m) == [by |-> t, part |-> part, of |-> m]

\* except Exception as e: self.log_message(f"Failed to send message to extension: {e}")
SendFailed(t) ==
    /\ logtext' = [logtext EXCEPT ![t] =
                       Text("Failed to send message to extension", "BrokenPipeError")]
    /\ pc' = [pc EXCEPT ![t] = "log_append"]
    /\ UNCHANGED << stack, stdout >>

\* self.stdout.write(struct.pack('<I', length))
SendWriteLength(t) ==
    /\ pc[t] = "send_len"
    /\ ~Exited
    /\ IF stdoutBroken
       THEN SendFailed(t)
       ELSE /\ stdout' = Append(stdout, Chunk(t, "len", message[t]))
            /\ pc' = [pc EXCEPT ![t] = "send_body"]
            /\ UNCHANGED << stack, logtext >>
    /\ UNCHANGED << running, message_queue, service, stdoutBroken, peerVars,
                    script, message, newq, readerVars, busOut, busEvents, ev,
                    logClock >>

\* SendWritePayload with the payload put at the head of the stream, before
\* what was written earlier
SendWritePayloadFirst(t) ==
    /\ pc[t] = "send_body"
    /\ ~Exited
    /\ IF stdoutBroken
       THEN SendFailed(t)
       ELSE /\ stdout' = << Chunk(t, "payload", message[t]) >> \o stdout
            /\ Return(t)
            /\ UNCHANGED logtext
    /\ UNCHANGED << running, message_queue, service, stdoutBroken, peerVars,
                    script, message, newq, readerVars, busOut, busEvents, ev,
                    logClock >>

\* self.stdout.write(encoded_message); self.stdout.flush()
SendWritePayload(t) ==
    /\ pc[t] = "send_body"
    /\ ~Exited
    /\ IF stdoutBroken
       THEN SendFailed(t)
       ELSE /\ stdout' = Append(stdout, Chunk(t, "payload", message[t]))
            /\ Return(t)
            /\ UNCHANGED logtext
    /\ UNCHANGED << running, message_queue, service, stdoutBroken, peerVars,
                    script, message, newq, readerVars, busOut, busEvents, ev,
                    logClock >>

(***************************************************************************)
(* run() and cleanup(), main thread.                                       *)
(***************************************************************************)
\* self.log_message("ChatGPT-buddy D-Bus monitor starting...")
RunStart ==
    /\ pc["main"] = "run"
    /\ logtext' = [logtext EXCEPT !["main"] =
                       Text("ChatGPT-buddy D-Bus monitor starting...", << >>)]
    /\ Call("main", "log_append", "run_started")
    /\ UNCHANGED << running, message_queue, service, stdout, stdoutBroken,
                    peerVars, script, message, newq, readerVars, busOut,
                    busEvents, ev, logClock >>

\* self.send_to_extension({"type": "MONITOR_STARTED", ...})
RunSendStarted ==
    /\ pc["main"] = "run_started"
    /\ message' = [message EXCEPT !["main"] =
                       [type |-> "MONITOR_STARTED", timestamp |-> TimeNow,
                        pid |-> "os.getpid()"]]
    /\ Call("main", "send_len", "run_loop")
    /\ UNCHANGED << running, message_queue, service, stdout, stdoutBroken,
                    peerVars, script, logtext, newq, readerVars, busOut,
                    busEvents, ev, logClock >>

\* loop = GLib.MainLoop(); loop.run()
RunLoop ==
    /\ pc["main"] = "run_loop"
    /\ pc' = [pc EXCEPT !["main"] = "loop"]
    /\ UNCHANGED << stack, running, message_queue, service, stdout,
                    stdoutBroken, peerVars, script, message, logtext, newq,
                    readerVars, busOut, busEvents, ev, logClock >>

\* the labels of run() at which the main thread executes the try block of
\* run() itself: before a statement of run(), or idle inside loop.run()
InRunTry == pc["main"] \in {"run", "run_started", "run_loop", "loop"}

\* SIGINT: KeyboardInterrupt is raised in the main thread inside the try block
Interrupt ==
    /\ InRunTry
    /\ pc' = [pc EXCEPT !["main"] = "run_except"]
    /\ UNCHANGED << stack, running, message_queue, service, stdout,
                    stdoutBroken, peerVars, script, message, logtext, newq,
                    readerVars, busOut, busEvents, ev, logClock >>

\* RunExcept with the interrupt swallowed: after the log, loop.run() resumes
RunExceptResumes ==
    /\ pc["main"] = "run_except"
    /\ logtext' = [logtext EXCEPT !["main"] =
                       Text("Received interrupt signal, shutting down...", << >>)]
    /\ Call("main", "log_append", "loop")
    /\ UNCHANGED << running, message_queue, service, stdout, stdoutBroken,
                    peerVars, script, message, newq, readerVars, busOut,
                    busEvents, ev, logClock >>

\* except KeyboardInterrupt: self.log_message("Received interrupt signal, ...")
RunExcept ==
    /\ pc["main"] = "run_except"
    /\ logtext' = [logtext EXCEPT !["main"] =
                       Text("Received interrupt signal, shutting down...", << >>)]
    /\ Call("main", "log_append", "cleanup")
    /\ UNCHANGED << running, message_queue, service, stdout, stdoutBroken,
                    peerVars, script, message, newq, readerVars, busOut,
                    busEvents, ev, logClock >>

\* finally: self.cleanup(): self.running = False; self.log_message(...)
Cleanup ==
    /\ pc["main"] = "cleanup"
    /\ running' = FALSE
    /\ logtext' = [logtext EXCEPT !["main"] =
                       Text("D-Bus monitor shutting down", << >>)]
    /\ Call("main", "log_append", "run_end")
    /\ UNCHANGED << message_queue, service, stdout, stdoutBroken, peerVars,
                    script, message, newq, readerVars, busOut, busEvents, ev,
                    logClock >>

\* run() returns and the script ends: the process exits, and the daemon
\* reader thread with it
RunEnd ==
    /\ pc["main"] = "run_end"
    /\ pc' = [pc EXCEPT !["main"] = "exited"]
    /\ UNCHANGED << stack, running, message_queue, service, stdout,
                    stdoutBroken, peerVars, script, message, logtext, newq,
                    readerVars, busOut, busEvents, ev, logClock >>

(***************************************************************************)
(* The bus callbacks, dispatched by the GLib loop on the main thread.      *)
(***************************************************************************)
\* the argument lists of the signals the bus delivers
SignalArgs == { << "SELECT_PROJECT", "{\"selector\":\"#x\"}" >> }

\* the arguments of the ExecuteAutomation calls the bus delivers
AutomationData == { "{\"action\":\"ping\"}" }

\* [str(arg) for arg in args]: the arguments of the model are strings already
StrArgs(args) == [i \in 1..Len(args) |-> args[i]]

SignalData(type, interface, path, args) ==
    [type |-> type, interface |-> interface, args |-> StrArgs(args),
     sender |-> "unknown", timestamp |-> TimeNow, path |-> path]

\* on_automation_signal(*args): build signal_data, self.send_to_extension(signal_data)
OnAutomationSignal(args) ==
    /\ pc["main"] = "loop"
    /\ busEvents < MaxBusEvents
    /\ busEvents' = busEvents + 1
    /\ ev' = args
    /\ message' = [message EXCEPT !["main"] =
                       SignalData("DBUS_AUTOMATION_SIGNAL",
                                  "org.chatgpt.buddy.automation", "/automation", args)]
    /\ Call("main", "send_len", "auto_log")
    /\ UNCHANGED << running, message_queue, service, stdout, stdoutBroken,
                    peerVars, script, logtext, newq, readerVars, busOut, logClock >>

\* on_firefox_signal(*args): build signal_data, self.send_to_extension(signal_data)
OnFirefoxSignal(args) ==
    /\ pc["main"] = "loop"
    /\ busEvents < MaxBusEvents
    /\ busEvents' = busEvents + 1
    /\ ev' = args
    /\ message' = [message EXCEPT !["main"] =
                       SignalData("DBUS_FIREFOX_SIGNAL",
                                  "org.mozilla.firefox.Remote",
                                  "/org/mozilla/firefox/Remote", args)]
    /\ Call("main", "send_len", "firefox_log")
    /\ UNCHANGED << running, message_queue, service, stdout, stdoutBroken,
                    peerVars, script, logtext, newq, readerVars, busOut, logClock >>

\* self.log_message(f"Automation signal received: {args}") /
\* self.log_message(f"Firefox signal received: {args}")
SignalLog ==
    /\ pc["main"] \in {"auto_log", "firefox_log"}
    /\ logtext' = [logtext EXCEPT !["main"] =
                       IF pc["main"] = "auto_log"
                       THEN Text("Automation signal received", ev)
                       ELSE Text("Firefox signal received", ev)]
    /\ Call("main", "log_append", "loop")
    /\ UNCHANGED << running, message_queue, service, stdout, stdoutBroken,
                    peerVars, script, message, newq, readerVars, busOut,
                    busEvents, ev, logClock >>

\* ExecuteAutomation(automation_data) on the registered service object:
\* self.monitor.log_message(f"D-Bus method called: ...")
ExecuteAutomation(automation_data) ==
    /\ pc["main"] = "loop"
    /\ service
    /\ busEvents < MaxBusEvents
    /\ busEvents' = busEvents + 1
    /\ ev' = << automation_data >>
    /\ logtext' = [logtext EXCEPT !["main"] =
                       Text("D-Bus method called: ExecuteAutomation", << automation_data >>)]
    /\ Call("main", "log_append", "exec_send")
    /\ UNCHANGED << running, message_queue, service, stdout, stdoutBroken,
                    peerVars, script, message, newq, readerVars, busOut, logClock >>

\* self.monitor.send_to_extension({"type": "DBUS_METHOD_CALL", ...})
ExecuteAutomationSend ==
    /\ pc["main"] = "exec_send"
    /\ message' = [message EXCEPT !["main"] =
                       [type |-> "DBUS_METHOD_CALL", method |-> "ExecuteAutomation",
                        args |-> ev, timestamp |-> TimeNow]]
    /\ Call("main", "send_len", "exec_return")
    /\ UNCHANGED << running, message_queue, service, stdout, stdoutBroken,
                    peerVars, script, logtext, newq, readerVars, busOut,
                    busEvents, ev, logClock >>

\* ExecuteAutomationReturn with the failure of the relay handed to the caller:
\* the exception of the failed write is the outcome of the call
ExecuteAutomationReturnRaises ==
    /\ pc["main"] = "exec_return"
    /\ busOut' = Append(busOut,
                        IF logtext["main"].text = "Failed to send message to extension"
                        THEN [err |-> "BrokenPipeError", kind |-> "return",
                              member |-> "ExecuteAutomation", args |-> << >>]
                        ELSE [err |-> "none", kind |-> "return",
                              member |-> "ExecuteAutomation",
                              args |-> << "automation_queued" >>])
    /\ pc' = [pc EXCEPT !["main"] = "loop"]
    /\ UNCHANGED << stack, running, message_queue, service, stdout,
                    stdoutBroken, peerVars, script, message, logtext, newq,
                    readerVars, busEvents, ev, logClock >>

\* return "automation_queued"
ExecuteAutomationReturn ==
    /\ pc["main"] = "exec_return"
    /\ busOut' = Append(busOut, [err |-> "none", kind |-> "return",
                                 member |-> "ExecuteAutomation",
                                 args |-> << "automation_queued" >>])
    /\ pc' = [pc EXCEPT !["main"] = "loop"]
    /\ UNCHANGED << stack, running, message_queue, service, stdout,
                    stdoutBroken, peerVars, script, message, logtext, newq,
                    readerVars, busEvents, ev, logClock >>

(***************************************************************************)
(* read_native_messages(), reader thread.  self.stdin is a buffered        *)
(* reader on a pipe: read(n) blocks until n bytes have arrived or the      *)
(* stream is closed, and returns fewer than n bytes only at end of stream. *)
(***************************************************************************)
\* read(n) of an unbuffered stream: it returns as soon as any byte has arrived
ReadReadyAny(n) == Len(stdinBuf) >= Min(n, 1) \/ stdinEOF

\* read(n) can return
ReadReady(n) == Len(stdinBuf) >= n \/ stdinEOF

\* except Exception as e: self.log_message(f"Error reading native messages: {e}");
\* the method, and the thread, end after the log
ReaderRaise(exc) ==
    /\ rexit' = "exception"
    /\ logtext' = [logtext EXCEPT !["reader"] =
                       Text("Error reading native messages", exc)]
    /\ Call("reader", "log_append", "r_done")

\* while self.running:
ReadLoopTest ==
    /\ pc["reader"] = "r_while"
    /\ ~Exited
    /\ IF running
       THEN /\ pc' = [pc EXCEPT !["reader"] = "r_readlen"]
            /\ UNCHANGED rexit
       ELSE /\ pc' = [pc EXCEPT !["reader"] = "r_done"]
            /\ rexit' = "stopped"
    /\ UNCHANGED << stack, running, message_queue, service, stdout,
                    stdoutBroken, peerVars, script, message, logtext, newq,
                    length, inmsg, busOut, busEvents, ev, logClock >>

\* length_bytes = self.stdin.read(4); if not length_bytes: break;
\* length = struct.unpack('<I', length_bytes)[0]
ReadLength ==
    /\ pc["reader"] = "r_readlen"
    /\ ~Exited
    /\ ReadReady(PrefixLen)
    /\ LET length_bytes == Take(stdinBuf, PrefixLen)
       IN  /\ stdinBuf' = Drop(stdinBuf, PrefixLen)
           /\ IF length_bytes = << >>
              THEN /\ rexit' = "eof"
                   /\ pc' = [pc EXCEPT !["reader"] = "r_done"]
                   /\ UNCHANGED << stack, logtext, length >>
              ELSE IF ~UnpackOk(length_bytes)
              THEN /\ ReaderRaise("struct.error")
                   /\ UNCHANGED length
              ELSE /\ length' = Unpack(length_bytes)
                   /\ pc' = [pc EXCEPT !["reader"] = "r_readmsg"]
                   /\ UNCHANGED << stack, logtext, rexit >>
    /\ UNCHANGED << running, message_queue, service, stdout, stdoutBroken,
                    stdinEOF, peerTodo, script, message, newq, inmsg, busOut,
                    busEvents, ev, logClock >>

\* message_bytes = self.stdin.read(length); if not message_bytes: break;
\* message = json.loads(message_bytes.decode('utf-8')), with
\* except json.JSONDecodeError: self.log_message(f"Invalid JSON from extension: {e}")
ReadMessage ==
    /\ pc["reader"] = "r_readmsg"
    /\ ~Exited
    /\ ReadReady(length)
    /\ LET message_bytes == Take(stdinBuf, length)
           decoded == JsonLoads(message_bytes)
       IN  /\ stdinBuf' = Drop(stdinBuf, length)
           /\ IF message_bytes = << >>
              THEN /\ rexit' = "empty"
                   /\ pc' = [pc EXCEPT !["reader"] = "r_done"]
                   /\ UNCHANGED << stack, logtext, inmsg >>
              ELSE IF decoded.err = "JSONDecodeError"
              THEN /\ logtext' = [logtext EXCEPT !["reader"] =
                                      Text("Invalid JSON from extension", "JSONDecodeError")]
                   /\ Call("reader", "log_append", "r_while")
                   /\ UNCHANGED << rexit, inmsg >>
              ELSE IF decoded.err # "none"
              THEN /\ ReaderRaise(decoded.err)
                   /\ UNCHANGED inmsg
              ELSE /\ inmsg' = decoded.val
                   /\ pc' = [pc EXCEPT !["reader"] = "r_handle"]
                   /\ UNCHANGED << stack, logtext, rexit >>
    /\ UNCHANGED << running, message_queue, service, stdout, stdoutBroken,
                    stdinEOF, peerTodo, script, message, newq, length, busOut,
                    busEvents, ev, logClock >>

(***************************************************************************)
(* handle_extension_message(message), reader thread.                       *)
(***************************************************************************)
\* HandleExtensionMessage with a message of an unknown type treated as an
\* error: the exception ends read_native_messages
HandleExtensionMessageStrict ==
    /\ pc["reader"] = "r_handle"
    /\ ~Exited
    /\ IF inmsg.t # "obj"
       THEN /\ ReaderRaise("AttributeError")
            /\ UNCHANGED message
       ELSE LET msg_type == DictGet(inmsg, S_type, JStr(S_unknown))
            IN  IF msg_type.t = "str" /\ msg_type.v = S_SEND_DBUS_SIGNAL
                THEN /\ pc' = [pc EXCEPT !["reader"] = "r_emit"]
                     /\ UNCHANGED << stack, message, logtext, rexit >>
                ELSE IF msg_type.t = "str" /\ msg_type.v = S_PING
                THEN /\ message' = [message EXCEPT !["reader"] =
                                        [type |-> "PONG", timestamp |-> TimeNow]]
                     /\ Call("reader", "send_len", "r_while")
                     /\ UNCHANGED << logtext, rexit >>
                ELSE IF msg_type.t = "str" /\ msg_type.v = S_GET_STATUS
                THEN /\ pc' = [pc EXCEPT !["reader"] = "r_status"]
                     /\ UNCHANGED << stack, message, logtext, rexit >>
                ELSE /\ ReaderRaise("ValueError")
                     /\ UNCHANGED message
    /\ UNCHANGED << running, message_queue, service, stdout, stdoutBroken,
                    peerVars, script, newq, length, inmsg, busOut, busEvents,
                    ev, logClock >>

\* message.get('type', 'unknown'); message.get raises AttributeError unless
\* message is a dict, and the exception ends read_native_messages
HandleExtensionMessage ==
    /\ pc["reader"] = "r_handle"
    /\ ~Exited
    /\ IF inmsg.t # "obj"
       THEN /\ ReaderRaise("AttributeError")
            /\ UNCHANGED message
       ELSE LET msg_type == DictGet(inmsg, S_type, JStr(S_unknown))
            IN  IF msg_type.t = "str" /\ msg_type.v = S_SEND_DBUS_SIGNAL
                THEN /\ pc' = [pc EXCEPT !["reader"] = "r_emit"]
                     /\ UNCHANGED << stack, message, logtext, rexit >>
                ELSE IF msg_type.t = "str" /\ msg_type.v = S_PING
                THEN /\ message' = [message EXCEPT !["reader"] =
                                        [type |-> "PONG", timestamp |-> TimeNow]]
                     /\ Call("reader", "send_len", "r_while")
                     /\ UNCHANGED << logtext, rexit >>
                ELSE IF msg_type.t = "str" /\ msg_type.v = S_GET_STATUS
                THEN /\ pc' = [pc EXCEPT !["reader"] = "r_status"]
                     /\ UNCHANGED << stack, message, logtext, rexit >>
                ELSE /\ logtext' = [logtext EXCEPT !["reader"] =
                                        Text("Unknown message type from extension", msg_type)]
                     /\ Call("reader", "log_append", "r_while")
                     /\ UNCHANGED << message, rexit >>
    /\ UNCHANGED << running, message_queue, service, stdout, stdoutBroken,
                    peerVars, script, newq, length, inmsg, busOut, busEvents,
                    ev, logClock >>

\* send_status_update(): the status dict is built from the fields as they
\* are at this moment, then handed to send_to_extension
SendStatusUpdate ==
    /\ pc["reader"] = "r_status"
    /\ ~Exited
    /\ message' = [message EXCEPT !["reader"] =
                       [type |-> "STATUS_UPDATE", dbus_connected |-> TRUE,
                        service_registered |-> service, uptime |-> TimeNow,
                        message_count |-> Len(message_queue)]]
    /\ Call("reader", "send_len", "r_while")
    /\ UNCHANGED << running, message_queue, service, stdout, stdoutBroken,
                    peerVars, script, logtext, newq, readerVars, busOut,
                    busEvents, ev, logClock >>

\* emit_dbus_signal(message.get('signal', {})): signal_data.get raises
\* AttributeError unless signal_data is a dict; every exception is caught
\* and logged; without a service attribute nothing is done at all.  The
\* interface read from signal_data is not used
EmitDbusSignal ==
    /\ pc["reader"] = "r_emit"
    /\ ~Exited
    /\ LET signal_data == DictGet(inmsg, S_signal, JObj(<< >>))
           member == DictGet(signal_data, S_member, JStr(S_AutomationEvent))
           args == DictGet(signal_data, S_args, JArr(<< >>))
           emitted == emit_automation_signal(member, args)
       IN  IF signal_data.t # "obj"
           THEN /\ logtext' = [logtext EXCEPT !["reader"] =
                                   Text("Failed to emit D-Bus signal", "AttributeError")]
                /\ Call("reader", "log_append", "r_while")
                /\ UNCHANGED busOut
           ELSE IF ~service
           THEN /\ pc' = [pc EXCEPT !["reader"] = "r_while"]
                /\ UNCHANGED << stack, logtext, busOut >>
           ELSE IF emitted.err # "none"
           THEN /\ logtext' = [logtext EXCEPT !["reader"] =
                                   Text("Failed to emit D-Bus signal", emitted.err)]
                /\ Call("reader", "log_append", "r_while")
                /\ UNCHANGED busOut
           ELSE /\ busOut' = Append(busOut, emitted)
                /\ logtext' = [logtext EXCEPT !["reader"] =
                                   Text("Emitted D-Bus signal", << member, args >>)]
                /\ Call("reader", "log_append", "r_while")
    /\ UNCHANGED << running, message_queue, service, stdout, stdoutBroken,
                    peerVars, script, message, newq, readerVars, busEvents,
                    ev, logClock >>

(***************************************************************************)
(* The peer.                                                               *)
(***************************************************************************)
\* the peer writes the next bytes of its script on the bridge's stdin
PeerSend ==
    /\ ~Exited
    /\ ~stdinEOF
    /\ peerTodo # << >>
    /\ stdinBuf' = stdinBuf \o Head(peerTodo)
    /\ peerTodo' = Tail(peerTodo)
    /\ UNCHANGED << pc, stack, running, message_queue, service, stdout,
                    stdoutBroken, stdinEOF, script, message, logtext, newq,
                    readerVars, busOut, busEvents, ev, logClock >>

\* the peer, its script written, closes the bridge's stdin
PeerClose ==
    /\ ~Exited
    /\ ~stdinEOF
    /\ peerTodo = << >>
    /\ stdinEOF' = TRUE
    /\ UNCHANGED << pc, stack, running, message_queue, service, stdout,
                    stdoutBroken, stdinBuf, peerTodo, script, message, logtext,
                    newq, readerVars, busOut, busEvents, ev, logClock >>

\* the peer closes the reading end of the bridge's stdout: writes fail from now on
PeerCloseStdout ==
    /\ ~Exited
    /\ ~stdoutBroken
    /\ stdoutBroken' = TRUE
    /\ UNCHANGED << pc, stack, running, message_queue, service, stdout,
                    peerVars, script, message, logtext, newq, readerVars,
                    busOut, busEvents, ev, logClock >>

(***************************************************************************)
(* The running bridge.                                                     *)
(***************************************************************************)
MainStep ==
    \/ RunStart
    \/ RunSendStarted
    \/ RunLoop
    \/ RunExcept
    \/ Cleanup
    \/ RunEnd
    \/ SignalLog
    \/ ExecuteAutomationSend
    \/ ExecuteAutomationReturn
    \/ LogAppend("main")
    \/ LogCheck("main")
    \/ SendWriteLength("main")
    \/ SendWritePayload("main")

ReaderStep ==
    \/ ReadLoopTest
    \/ ReadLength
    \/ ReadMessage
    \/ HandleExtensionMessage
    \/ SendStatusUpdate
    \/ EmitDbusSignal
    \/ LogAppend("reader")
    \/ LogCheck("reader")
    \/ SendWriteLength("reader")
    \/ SendWritePayload("reader")

BusEvent ==
    \/ \E args \in SignalArgs : OnAutomationSignal(args)
    \/ \E args \in SignalArgs : OnFirefoxSignal(args)
    \/ \E data \in AutomationData : ExecuteAutomation(data)

Next ==
    \/ MainStep
    \/ ReaderStep
    \/ BusEvent
    \/ Interrupt
    \/ PeerSend
    \/ PeerClose
    \/ PeerCloseStdout

Spec == Init /\ [][Next]_vars

(***************************************************************************)
(* The frame reader alone: every script, delivered frame by frame or byte  *)
(* by byte, while the main thread starts up, idles in the GLib loop and    *)
(* may be interrupted; the bus delivers nothing.                           *)
(***************************************************************************)
InitRead ==
    /\ pc = [t \in Threads |-> IF t = "main" THEN "run" ELSE "r_while"]
    /\ stack = [t \in Threads |-> << >>]
    /\ running = TRUE
    /\ message_queue = << >>
    /\ service = TRUE
    /\ stdout = << >>
    /\ stdoutBroken = FALSE
    /\ stdinBuf = << >>
    /\ stdinEOF = FALSE
    /\ script \in ScriptIds
    /\ \E bytewise \in BOOLEAN : peerTodo = PeerWrites(script, bytewise)
    /\ message = [t \in Threads |-> NoMessage]
    /\ logtext = [t \in Threads |-> NoText]
    /\ newq = [t \in Threads |-> << >>]
    /\ length = 0
    /\ inmsg = JNum(0)
    /\ rexit = "none"
    /\ busOut = << >>
    /\ busEvents = 0
    /\ ev = << >>
    /\ logClock = 0

NextRead ==
    \/ ReaderStep
    \/ RunStart
    \/ RunSendStarted
    \/ RunLoop
    \/ Interrupt
    \/ RunExcept
    \/ Cleanup
    \/ RunEnd
    \/ LogAppend("main")
    \/ LogCheck("main")
    \/ SendWriteLength("main")
    \/ SendWritePayload("main")
    \/ PeerSend
    \/ PeerClose

SpecRead == InitRead /\ [][NextRead]_vars

(***************************************************************************)
(* The bus side alone: the peer sends nothing, so the reader thread blocks *)
(* in its first read; the bus delivers signals and method calls, the peer  *)
(* may close the bridge's stdout, the user may interrupt.                  *)
(***************************************************************************)
InitBus ==
    /\ pc = [t \in Threads |-> IF t = "main" THEN "run" ELSE "r_while"]
    /\ stack = [t \in Threads |-> << >>]
    /\ running = TRUE
    /\ message_queue = << >>
    /\ service = TRUE
    /\ stdout = << >>
    /\ stdoutBroken = FALSE
    /\ stdinBuf = << >>
    /\ stdinEOF = FALSE
    /\ script = 1
    /\ peerTodo = << >>
    /\ message = [t \in Threads |-> NoMessage]
    /\ logtext = [t \in Threads |-> NoText]
    /\ newq = [t \in Threads |-> << >>]
    /\ length = 0
    /\ inmsg = JNum(0)
    /\ rexit = "none"
    /\ busOut = << >>
    /\ busEvents = 0
    /\ ev = << >>
    /\ logClock = 0

NextBus ==
    \/ MainStep
    \/ BusEvent
    \/ Interrupt
    \/ PeerCloseStdout
    \/ ReadLoopTest

SpecBus == InitBus /\ [][NextBus]_vars

(***************************************************************************)
(* emit_automation_signal alone: one call, its arguments drawn from the    *)
(* values a SEND_DBUS_SIGNAL message can carry as member and args.         *)
(***************************************************************************)
\* elements of an args list: two strings and a number
ArgElems == { JStr(<<97>>), JStr(<<98>>), JNum(1) }

\* the lists of at most MaxArgs elements
ArgLists == UNION { [1..n -> ArgElems] : n \in 0..MaxArgs }

\* signal names: the two declared signals, another string, a number
EmitNames ==
    { JStr(S_AutomationCompleted), JStr(S_AutomationEvent), JStr(<<88>>), JNum(5) }

\* the values of args: the lists, and a string, a number and an object
EmitArgs ==
    { JArr(l) : l \in ArgLists }
        \cup { JStr(<<97, 98>>), JNum(7), JObj(<< << S_type, JStr(<<97>>) >> >>) }

InitEmit ==
    /\ pc = [t \in Threads |-> IF t = "reader" THEN "emit_call" ELSE "parked"]
    /\ stack = [t \in Threads |-> << >>]
    /\ running = TRUE
    /\ message_queue = << >>
    /\ service = TRUE
    /\ stdout = << >>
    /\ stdoutBroken = FALSE
    /\ stdinBuf = << >>
    /\ stdinEOF = FALSE
    /\ script = 1
    /\ peerTodo = << >>
    /\ message = [t \in Threads |-> NoMessage]
    /\ logtext = [t \in Threads |-> NoText]
    /\ newq = [t \in Threads |-> << >>]
    /\ length = 0
    /\ inmsg = JNum(0)
    /\ rexit = "none"
    /\ busOut = << >>
    /\ busEvents = 0
    /\ ev \in { << name, args >> : name \in EmitNames, args \in EmitArgs }
    /\ logClock = 0

\* self.service.emit_automation_signal(ev[1], ev[2]): the signal goes on the
\* bus, or the call raises and nothing is emitted
EmitAutomationSignalCall ==
    /\ pc["reader"] = "emit_call"
    /\ LET emitted == emit_automation_signal(ev[1], ev[2])
       IN  IF emitted.err = "none"
           THEN /\ busOut' = Append(busOut, emitted)
                /\ pc' = [pc EXCEPT !["reader"] = "emit_done"]
           ELSE /\ pc' = [pc EXCEPT !["reader"] = "emit_raised"]
                /\ UNCHANGED busOut
    /\ UNCHANGED << stack, running, message_queue, service, stdout,
                    stdoutBroken, peerVars, script, message, logtext, newq,
                    readerVars, busEvents, ev, logClock >>

NextEmit == EmitAutomationSignalCall

SpecEmit == InitEmit /\ [][NextEmit]_vars

(***************************************************************************)
(* The construction: __init__ calls setup_dbus (line 39), which calls      *)
(* setup_dbus_service.  Every path through setup_dbus makes a log_message  *)
(* call, and self.message_queue is assigned only at line 41: each of these *)
(* calls raises AttributeError.  The statements after them (line 73, the   *)
(* sys.exit(1) of line 77, setup_native_messaging, lines 41-42, run()) are *)
(* not reached and have no action here.  The peer, which started the       *)
(* process, may write on its stdin and close its streams meanwhile.        *)
(***************************************************************************)
\* a request made on the bus during the construction, and its outcome
BusRequest(kind, member, ok) ==
    [err |-> IF ok THEN "none" ELSE "DBusException", kind |-> kind,
     member |-> member, args |-> << >>]

InitCtor ==
    /\ pc = [t \in Threads |-> IF t = "main" THEN "init" ELSE "unstarted"]
    /\ stack = [t \in Threads |-> << >>]
    /\ running = FALSE
    /\ message_queue = << >>
    /\ service = FALSE
    /\ stdout = << >>
    /\ stdoutBroken = FALSE
    /\ stdinBuf = << >>
    /\ stdinEOF = FALSE
    /\ script \in BridgeScriptIds
    /\ peerTodo = PeerWrites(script, FALSE)
    /\ message = [t \in Threads |-> NoMessage]
    /\ logtext = [t \in Threads |-> NoText]
    /\ newq = [t \in Threads |-> << >>]
    /\ length = 0
    /\ inmsg = JNum(0)
    /\ rexit = "none"
    /\ busOut = << >>
    /\ busEvents = 0
    /\ ev = << >>
    /\ logClock = 0

\* SetupDbusConnect with a failed connection passed over: setup_dbus goes on
\* to the subscriptions
SetupDbusConnectLenient ==
    /\ pc["main"] = "init"
    /\ \E ok \in BOOLEAN :
           /\ busOut' = Append(busOut, BusRequest("connect", "session", ok))
           /\ pc' = [pc EXCEPT !["main"] = "sd_sub_auto"]
    /\ UNCHANGED << stack, running, message_queue, service, stdout,
                    stdoutBroken, peerVars, script, message, logtext, newq,
                    readerVars, busEvents, ev, logClock >>

\* setup_dbus: DBusGMainLoop(set_as_default=True); self.bus = dbus.SessionBus();
\* an exception goes to the except clause of line 75
SetupDbusConnect ==
    /\ pc["main"] = "init"
    /\ \E ok \in BOOLEAN :
           /\ busOut' = Append(busOut, BusRequest("connect", "session", ok))
           /\ pc' = [pc EXCEPT !["main"] = IF ok THEN "sd_sub_auto" ELSE "sd_except"]
    /\ UNCHANGED << stack, running, message_queue, service, stdout,
                    stdoutBroken, peerVars, script, message, logtext, newq,
                    readerVars, busEvents, ev, logClock >>

\* self.bus.add_signal_receiver(self.on_automation_signal, ...), in the try
\* block of setup_dbus: an exception goes to the except clause of line 75
SetupDbusSubscribeAutomation ==
    /\ pc["main"] = "sd_sub_auto"
    /\ \E ok \in BOOLEAN :
           /\ busOut' = Append(busOut,
                               BusRequest("subscribe", "org.chatgpt.buddy.automation", ok))
           /\ pc' = [pc EXCEPT !["main"] = IF ok THEN "sd_sub_ff" ELSE "sd_except"]
    /\ UNCHANGED << stack, running, message_queue, service, stdout,
                    stdoutBroken, peerVars, script, message, logtext, newq,
                    readerVars, busEvents, ev, logClock >>

\* try: self.bus.add_signal_receiver(self.on_firefox_signal, ...)
\* except Exception as e: self.log_message(f"Firefox D-Bus monitoring not available: {e}")
SetupDbusSubscribeFirefox ==
    /\ pc["main"] = "sd_sub_ff"
    /\ \E ok \in BOOLEAN :
           /\ busOut' = Append(busOut,
                               BusRequest("subscribe", "org.mozilla.firefox.Remote", ok))
           /\ IF ok
              THEN /\ pc' = [pc EXCEPT !["main"] = "sd_service"]
                   /\ UNCHANGED << stack, logtext >>
              ELSE /\ logtext' = [logtext EXCEPT !["main"] =
                                      Text("Firefox D-Bus monitoring not available",
                                           "DBusException")]
                   /\ Call("main", "log_append", "sd_service")
    /\ UNCHANGED << running, message_queue, service, stdout, stdoutBroken,
                    peerVars, script, message, newq, readerVars, busEvents,
                    ev, logClock >>

\* setup_dbus_service: bus_name = dbus.service.BusName("org.chatgpt.buddy", self.bus);
\* self.service = ChatGPTBuddyDBusService(bus_name); self.service.set_monitor(self);
\* self.log_message("D-Bus service 'org.chatgpt.buddy' registered");
\* an exception of BusName goes to the except clause of line 91
SetupDbusService ==
    /\ pc["main"] = "sd_service"
    /\ \E ok \in BOOLEAN :
           /\ busOut' = Append(busOut, BusRequest("request_name", "org.chatgpt.buddy", ok))
           /\ IF ok
              THEN /\ service' = TRUE
                   /\ logtext' = [logtext EXCEPT !["main"] =
                                      Text("D-Bus service 'org.chatgpt.buddy' registered", << >>)]
                   /\ Call("main", "log_append", "svc_logged")
              ELSE /\ pc' = [pc EXCEPT !["main"] = "svc_except"]
                   /\ UNCHANGED << stack, service, logtext >>
    /\ UNCHANGED << running, message_queue, stdout, stdoutBroken, peerVars,
                    script, message, newq, readerVars, busEvents, ev, logClock >>

\* except Exception as e: self.log_message(f"Failed to register D-Bus service: {e}")
SetupDbusServiceExcept ==
    /\ pc["main"] = "svc_except"
    /\ logtext' = [logtext EXCEPT !["main"] =
                       Text("Failed to register D-Bus service", "Exception")]
    /\ Call("main", "log_append", "svc_return")
    /\ UNCHANGED << running, message_queue, service, stdout, stdoutBroken,
                    peerVars, script, message, newq, readerVars, busOut,
                    busEvents, ev, logClock >>

\* except Exception as e: self.log_message(f"Failed to initialize D-Bus: {e}")
\* (sys.exit(1) follows the return of the call)
SetupDbusExcept ==
    /\ pc["main"] = "sd_except"
    /\ logtext' = [logtext EXCEPT !["main"] =
                       Text("Failed to initialize D-Bus", "Exception")]
    /\ Call("main", "log_append", "sd_exit")
    /\ UNCHANGED << running, message_queue, service, stdout, stdoutBroken,
                    peerVars, script, message, newq, readerVars, busOut,
                    busEvents, ev, logClock >>

NextCtor ==
    \/ SetupDbusConnect
    \/ SetupDbusSubscribeAutomation
    \/ SetupDbusSubscribeFirefox
    \/ SetupDbusService
    \/ SetupDbusServiceExcept
    \/ SetupDbusExcept
    \/ LogAppend("main")
    \/ PeerSend
    \/ PeerClose
    \/ PeerCloseStdout

SpecCtor == InitCtor /\ [][NextCtor]_vars

(***************************************************************************)
(* The log buffer alone: the two threads call log_message again and again, *)
(* as the callbacks of the bus loop and the handlers of the read loop do.  *)
(***************************************************************************)
\* the log_message calls begun so far
LogCallsBegun == logClock + Cardinality({t \in Threads : pc[t] = "log_append"})

\* thread t calls self.log_message(message)
LogCall(t) ==
    /\ pc[t] = "log_idle"
    /\ LogCallsBegun < MaxLogCalls
    /\ logtext' = [logtext EXCEPT ![t] = Text("entry", << >>)]
    /\ Call(t, "log_append", "log_idle")
    /\ UNCHANGED << running, message_queue, service, stdout, stdoutBroken,
                    peerVars, script, message, newq, readerVars, busOut,
                    busEvents, ev, logClock >>

InitLogThreads(ts) ==
    /\ pc = [t \in Threads |-> IF t \in ts THEN "log_idle" ELSE "parked"]
    /\ stack = [t \in Threads |-> << >>]
    /\ running = TRUE
    /\ message_queue = << >>
    /\ service = TRUE
    /\ stdout = << >>
    /\ stdoutBroken = FALSE
    /\ stdinBuf = << >>
    /\ stdinEOF = FALSE
    /\ script = 1
    /\ peerTodo = << >>
    /\ message = [t \in Threads |-> NoMessage]
    /\ logtext = [t \in Threads |-> NoText]
    /\ newq = [t \in Threads |-> << >>]
    /\ length = 0
    /\ inmsg = JNum(0)
    /\ rexit = "none"
    /\ busOut = << >>
    /\ busEvents = 0
    /\ ev = << >>
    /\ logClock = 0

LogStep(t) ==
    \/ LogCall(t)
    \/ LogAppend(t)
    \/ LogCheck(t)
    \/ LogSlice(t)
    \/ LogStore(t)

\* both threads log
InitLog == InitLogThreads(Threads)

NextLog == \E t \in Threads : LogStep(t)

SpecLog == InitLog /\ [][NextLog]_vars

\* one thread logs: the insertions are made one after another
InitLogSeq == InitLogThreads({"main"})

NextLogSeq == LogStep("main")

SpecLogSeq == InitLogSeq /\ [][NextLogSeq]_vars

(***************************************************************************)
(* The frame round trip: send_to_extension encodes a message and writes    *)
(* prefix and payload on a pipe; the read procedure of                     *)
(* read_native_messages (ReadLength, ReadMessage) runs on the bytes of     *)
(* that pipe.  The message is kept in ev.  Strings are drawn from          *)
(* characters that json.dumps writes in each of its ways: as they are,     *)
(* by a two-character escape, by \uXXXX.                                   *)
(***************************************************************************)
\* a, the quote, the backslash, the line feed, e with acute accent
FrameChars == {97, 34, 92, 10, 233}

\* the strings of at most MaxStrLen characters
FrameStrings == UNION { [1..n -> FrameChars] : n \in 0..MaxStrLen }

FrameNumbers == {0, 7, 1730000000}

\* "timestamp"
S_timestamp == <<116, 105, 109, 101, 115, 116, 97, 109, 112>>
\* "service_registered"
S_service_registered ==
    <<115, 101, 114, 118, 105, 99, 101, 95, 114, 101, 103, 105, 115, 116, 101,
      114, 101, 100>>

\* messages of the shapes send_to_extension is given: a dict of strings to a
\* string, a number, a bool, a list of strings
FrameMessages ==
    { JObj(<< << S_type, JStr(s) >>, << S_timestamp, JNum(n) >> >>) :
          s \in FrameStrings, n \in FrameNumbers }
        \cup { JObj(<< << S_type, JStr(<<88>>) >>,
                       << S_args, JArr(<< JStr(s) >>) >>,
                       << S_service_registered, JBool(b) >> >>) :
                   s \in FrameStrings, b \in BOOLEAN }

InitFrame ==
    /\ pc = [t \in Threads |-> IF t = "main" THEN "frame_send" ELSE "r_readlen"]
    /\ stack = [t \in Threads |-> << >>]
    /\ running = TRUE
    /\ message_queue = << >>
    /\ service = TRUE
    /\ stdout = << >>
    /\ stdoutBroken = FALSE
    /\ stdinBuf = << >>
    /\ stdinEOF = FALSE
    /\ script = 1
    /\ peerTodo = << >>
    /\ message = [t \in Threads |-> NoMessage]
    /\ logtext = [t \in Threads |-> NoText]
    /\ newq = [t \in Threads |-> << >>]
    /\ length = 0
    /\ inmsg = JNum(0)
    /\ rexit = "none"
    /\ busOut = << >>
    /\ busEvents = 0
    /\ ev \in FrameMessages
    /\ logClock = 0

\* encoded_message = json.dumps(message).encode('utf-8');
\* self.stdout.write(struct.pack('<I', len(encoded_message)));
\* self.stdout.write(encoded_message); self.stdout.flush()
SendToExtensionBytes ==
    /\ pc["main"] = "frame_send"
    /\ LET encoded_message == JsonDumps(ev)
       IN  stdinBuf' = stdinBuf \o Pack(Len(encoded_message)) \o encoded_message
    /\ pc' = [pc EXCEPT !["main"] = "parked"]
    /\ UNCHANGED << stack, running, message_queue, service, stdout,
                    stdoutBroken, stdinEOF, peerTodo, script, message, logtext,
                    newq, readerVars, busOut, busEvents, ev, logClock >>

NextFrame ==
    \/ SendToExtensionBytes
    \/ ReadLength
    \/ ReadMessage

SpecFrame == InitFrame /\ [][NextFrame]_vars

(***************************************************************************)
(* The running bridge with a peer whose first frame does not parse: the    *)
(* body is not JSON (the loop logs it and goes on to the PING after it),   *)
(* is not UTF-8, or is JSON but not an object (the exception ends the read *)
(* loop).  The bus delivers signals and method calls meanwhile.            *)
(***************************************************************************)
ParseErrorScriptIds == {5, 6, 7}

InitParse ==
    /\ pc = [t \in Threads |-> IF t = "main" THEN "run" ELSE "r_while"]
    /\ stack = [t \in Threads |-> << >>]
    /\ running = TRUE
    /\ message_queue = << >>
    /\ service = TRUE
    /\ stdout = << >>
    /\ stdoutBroken = FALSE
    /\ stdinBuf = << >>
    /\ stdinEOF = FALSE
    /\ script \in ParseErrorScriptIds
    /\ peerTodo = PeerWrites(script, FALSE)
    /\ message = [t \in Threads |-> NoMessage]
    /\ logtext = [t \in Threads |-> NoText]
    /\ newq = [t \in Threads |-> << >>]
    /\ length = 0
    /\ inmsg = JNum(0)
    /\ rexit = "none"
    /\ busOut = << >>
    /\ busEvents = 0
    /\ ev = << >>
    /\ logClock = 0

NextParse ==
    \/ MainStep
    \/ ReadLoopTest
    \/ ReadLength
    \/ ReadMessage
    \/ HandleExtensionMessage
    \/ LogAppend("reader")
    \/ LogCheck("reader")
    \/ SendWriteLength("reader")
    \/ SendWritePayload("reader")
    \/ BusEvent
    \/ Interrupt
    \/ PeerSend
    \/ PeerClose

SpecParse == InitParse /\ [][NextParse]_vars

(***************************************************************************)
(* Status requests around a log insertion: the log holds the entries of n  *)
(* earlier log_message calls (at most LogCapacity, so none has been        *)
(* discarded yet); the peer asks for the status, sends a message that the  *)
(* bridge logs, and asks for the status again.                             *)
(***************************************************************************)
StatusScriptId == 14

\* the buffer after n sequential insertions into an empty log, n <= LogCapacity
LogAfter(n) == [i \in 1..n |-> LogEntry(Text("entry", << >>), i)]

InitStatus ==
    /\ pc = [t \in Threads |-> IF t = "main" THEN "parked" ELSE "r_while"]
    /\ stack = [t \in Threads |-> << >>]
    /\ running = TRUE
    /\ \E n \in 0..LogCapacity : message_queue = LogAfter(n) /\ logClock = n
    /\ service = TRUE
    /\ stdout = << >>
    /\ stdoutBroken = FALSE
    /\ stdinBuf = << >>
    /\ stdinEOF = FALSE
    /\ script = StatusScriptId
    /\ peerTodo = PeerWrites(script, FALSE)
    /\ message = [t \in Threads |-> NoMessage]
    /\ logtext = [t \in Threads |-> NoText]
    /\ newq = [t \in Threads |-> << >>]
    /\ length = 0
    /\ inmsg = JNum(0)
    /\ rexit = "none"
    /\ busOut = << >>
    /\ busEvents = 0
    /\ ev = << >>

NextStatus ==
    \/ ReadLoopTest
    \/ ReadLength
    \/ ReadMessage
    \/ HandleExtensionMessage
    \/ SendStatusUpdate
    \/ LogAppend("reader")
    \/ LogCheck("reader")
    \/ LogSlice("reader")
    \/ LogStore("reader")
    \/ SendWriteLength("reader")
    \/ SendWritePayload("reader")
    \/ PeerSend
    \/ PeerClose

SpecStatus == InitStatus /\ [][NextStatus]_vars

(***************************************************************************)
(* The signals of the repository's sender scripts: each script runs        *)
(* dbus-send --type=signal with a destination, an object path and          *)
(* interface.member.  The bus hands a signal with a destination to the     *)
(* connection owning that name; the bridge's receiver of line 54 takes the *)
(* signals whose interface and path are those it subscribed with.  The     *)
(* peer is silent.  A signal sent is recorded in busOut, kind "sent".      *)
(***************************************************************************)
\* self.bus.add_signal_receiver(self.on_automation_signal,
\*     dbus_interface="org.chatgpt.buddy.automation", path="/automation")
AutomationSubscription ==
    [interface |-> "org.chatgpt.buddy.automation", path |-> "/automation"]

\* dbus.service.BusName("org.chatgpt.buddy", self.bus)
BridgeBusName == "org.chatgpt.buddy"

SenderSignals ==
    { \* dbus-client-test.py, send_automation_signal
      [sender |-> "dbus-client-test", dest |-> "org.chatgpt.buddy",
       path |-> "/automation", interface |-> "org.chatgpt.buddy.automation",
       member |-> "AutomationEvent",
       args |-> << "SELECT_PROJECT", "{\"action\":\"SELECT_PROJECT\"}" >>],
      \* test-dbus-integration.py, test_signal_sending
      [sender |-> "test-dbus-integration", dest |-> "org.chatgpt.buddy.automation",
       path |-> "/org/chatgpt/buddy/automation",
       interface |-> "org.chatgpt.buddy.automation",
       member |-> "AutomationEvent",
       args |-> << "INTEGRATION_TEST", "{\"test\":\"signal_sending\"}" >>],
      \* benchmark-dbus-vs-websocket.py, benchmark_dbus_signals
      [sender |-> "benchmark-dbus-vs-websocket", dest |-> "org.chatgpt.buddy.automation",
       path |-> "/org/chatgpt/buddy/automation",
       interface |-> "org.chatgpt.buddy.automation",
       member |-> "AutomationEvent",
       args |-> << "BENCHMARK_TEST", "{\"iteration\":0}" >>] }

\* the signal is one the receiver was subscribed for
MatchesSubscription(sig, sub) == sig.interface = sub.interface /\ sig.path = sub.path

\* the bus hands the signal to the bridge's connection
ReachesBridge(sig) == sig.dest = BridgeBusName /\ service

SentSignal(sig) ==
    [err |-> "none", kind |-> "sent", member |-> sig.member,
     args |-> << sig.sender >> \o sig.args]

\* a sender script emits its signal while the bridge is in the loop: the
\* bridge's callback runs if the signal reaches it and matches
SenderSignal(sig) ==
    /\ pc["main"] = "loop"
    /\ busEvents < MaxBusEvents
    /\ busEvents' = busEvents + 1
    /\ busOut' = Append(busOut, SentSignal(sig))
    /\ IF ReachesBridge(sig) /\ MatchesSubscription(sig, AutomationSubscription)
       THEN /\ ev' = sig.args
            /\ message' = [message EXCEPT !["main"] =
                               SignalData("DBUS_AUTOMATION_SIGNAL",
                                          "org.chatgpt.buddy.automation",
                                          "/automation", sig.args)]
            /\ Call("main", "send_len", "auto_log")
       ELSE UNCHANGED << pc, stack, ev, message >>
    /\ UNCHANGED << running, message_queue, service, stdout, stdoutBroken,
                    peerVars, script, logtext, newq, readerVars, logClock >>

NextSenders ==
    \/ RunStart
    \/ RunSendStarted
    \/ RunLoop
    \/ RunExcept
    \/ Cleanup
    \/ RunEnd
    \/ SignalLog
    \/ LogAppend("main")
    \/ LogCheck("main")
    \/ SendWriteLength("main")
    \/ SendWritePayload("main")
    \/ Interrupt
    \/ PeerCloseStdout
    \/ ReadLoopTest
    \/ \E sig \in SenderSignals : SenderSignal(sig)

SpecSenders == InitBus /\ [][NextSenders]_vars

(***************************************************************************)
(* The lifecycle state of the bridge, read off the position of the main    *)
(* thread in __init__ and run(): the code keeps no lifecycle variable      *)
(* besides self.running.                                                   *)
(***************************************************************************)
Lifecycle ==
    IF Exited THEN "STOPPED"
    ELSE IF MainContext \in {"run_except", "cleanup", "run_end"} THEN "DRAINING"
    ELSE IF MainContext \in {"run", "run_started", "run_loop"} \cup SetupDbusLabels
    THEN "INITIALIZING"
    ELSE "RUNNING"

LifecycleRank(state) ==
    CASE state = "INITIALIZING" -> 0
      [] state = "RUNNING" -> 1
      [] state = "DRAINING" -> 2
      [] state = "STOPPED" -> 3

(***************************************************************************)
(* Observations on stdout and on the log.                                  *)
(***************************************************************************)
\* the payload writes of messages of the given type made by thread t
PayloadsOf(t, type) ==
    {i \in 1..Len(stdout) :
        stdout[i].by = t /\ stdout[i].part = "payload" /\ stdout[i].of.type = type}

\* the log holds an entry with this text
Logged(text) == \E i \in 1..Len(message_queue) : message_queue[i].message.text = text

\* thread t has appended its entry and not yet returned from log_message
InsertionInProgress(t) == pc[t] \in {"log_check", "log_slice", "log_store"}

(***************************************************************************)
(* Properties.                                                             *)
(***************************************************************************)

\* C1: the outbound stream is a concatenation of whole frames: every length
\* prefix on stdout is followed immediately by the payload of the same message
\* written by the same thread (or is the last write so far), and every
\* payload follows its own length prefix.
C1_FramesNeverInterleaved ==
    \A i \in 1..Len(stdout) :
        /\ stdout[i].part = "len" /\ i < Len(stdout) =>
               /\ stdout[i + 1].part = "payload"
               /\ stdout[i + 1].by = stdout[i].by
               /\ stdout[i + 1].of = stdout[i].of
        /\ stdout[i].part = "payload" =>
               /\ i > 1
               /\ stdout[i - 1].part = "len"
               /\ stdout[i - 1].by = stdout[i].by

\* C2: in every state, the intermediate states of an insertion included, the
\* log buffer holds at most 100 entries and its last entry is the one most
\* recently inserted.
C2_LogBoundedNewestLast ==
    /\ Len(message_queue) <= LogCapacity
    /\ message_queue # << >> =>
           message_queue[Len(message_queue)].timestamp = logClock

\* C3: after 150 insertions made one after another into an empty buffer, the
\* buffer holds exactly the 100 most recently inserted entries, in insertion
\* order.
C3_Last100After150 ==
    (logClock = 150 /\ pc["main"] = "log_idle") =>
        /\ Len(message_queue) = 100
        /\ \A i \in 1..Len(message_queue) : message_queue[i].timestamp = 50 + i

\* C4: the snapshot taken for STATUS_UPDATE excludes a log insertion in
\* progress: send_status_update never reads the state while the other thread
\* is between the append and the end of log_message.
C4_SnapshotExcludesInsertion ==
    [][SendStatusUpdate => ~InsertionInProgress("main")]_vars

\* the scripts made of one malformed frame (a body that is no JSON message, or
\* a prefix that does not give the length of the body) followed by a
\* well-formed PING
MalformedThenPing ==
    {i \in ScriptIds :
        /\ Len(Scripts[i]) = 2
        /\ Scripts[i][2] = Frame(TxtPing)
        /\ \/ ~WellFramed(Scripts[i][1])
           \/ JsonLoads(Scripts[i][1].body).err # "none"
           \/ JsonLoads(Scripts[i][1].body).val.t # "obj"}

\* C5: a malformed frame never ends the read loop, nothing is dispatched for
\* it, and the well-formed frame after it is decoded and dispatched: on a
\* script of one malformed frame and a PING the loop ends only at the end of
\* the stream or when the bridge stops, the only reply written is the PONG,
\* nothing is emitted on the bus, and the PONG has been written when the loop
\* ends at the end of the stream.
C5_MalformedFrameIsolated ==
    script \in MalformedThenPing =>
        /\ rexit \in {"none", "eof", "stopped"}
        /\ busOut = << >>
        /\ \A i \in 1..Len(stdout) :
               stdout[i].by = "reader" => stdout[i].of.type = "PONG"
        /\ rexit = "eof" => PayloadsOf("reader", "PONG") # {}

\* the scripts whose last frame declares more bytes than the stream holds
TruncatedLast ==
    {i \in ScriptIds :
        LET last == Scripts[i][Len(Scripts[i])]
        IN  Len(last.hdr) = PrefixLen /\ Unpack(last.hdr) > Len(last.body)}

\* C6: a frame that declares more bytes than arrive before the end of the
\* stream is never parsed nor dispatched: no handler runs for it, no frame is
\* written in reply and nothing is emitted on the bus.
C6_TruncatedFrameNeverDispatched ==
    (script \in TruncatedLast /\ Len(Scripts[script]) = 1) =>
        /\ pc["reader"] \notin {"r_handle", "r_emit", "r_status"}
        /\ \A i \in 1..Len(stdout) : stdout[i].by # "reader"
        /\ busOut = << >>

\* C7: the read loop never attempts to read a payload whose declared length
\* is above the ceiling.
C7_NoReadAboveCeiling ==
    pc["reader"] = "r_readmsg" => length <= MaxFrameLen

\* C8: the lifecycle state changes only along
\* INITIALIZING -> RUNNING -> DRAINING -> STOPPED.
C8_LifecycleChain ==
    [][Lifecycle' # Lifecycle =>
           << Lifecycle, Lifecycle' >> \in
               { << "INITIALIZING", "RUNNING" >>, << "RUNNING", "DRAINING" >>,
                 << "DRAINING", "STOPPED" >> }]_vars

\* C8, amended: the lifecycle state only moves forward in the order
\* INITIALIZING, RUNNING, DRAINING, STOPPED: no state is re-entered once left
\* and STOPPED is never left.
C8_LifecycleForward ==
    [][LifecycleRank(Lifecycle') >= LifecycleRank(Lifecycle)]_vars

\* the bridge has served a bus event in RUNNING and has stopped
C8_Witness == Lifecycle = "STOPPED" /\ busEvents > 0

\* no thread can take a step: the bridge waits for the bus, the peer or the user
Quiescent == ~ENABLED (MainStep \/ ReaderStep)

\* C9: a bridge whose read loop has observed the stream closed shuts down: it
\* does not come to rest, waiting for external events, in any state but STOPPED.
C9_ClosedStreamStops ==
    (rexit = "eof" /\ Quiescent) => Lifecycle = "STOPPED"

\* C10: after a write to the outbound stream has failed, the bridge does not
\* remain RUNNING: it does not come to rest in RUNNING, ready to relay the
\* next bus event.
C10_WriteFailureDrains ==
    (Logged("Failed to send message to extension") /\ Quiescent) =>
        Lifecycle # "RUNNING"

(***************************************************************************)
(* Observations on the frames of the outbound stream and on the calls of   *)
(* the bus.                                                                *)
(***************************************************************************)
\* the frames of type type written whole by thread t: a length prefix
\* followed at once by the payload of the same message
IntactFrames(t, type) ==
    {i \in 1..(Len(stdout) - 1) :
        /\ stdout[i].by = t /\ stdout[i].part = "len" /\ stdout[i].of.type = type
        /\ stdout[i + 1] = Chunk(t, "payload", stdout[i].of)}

\* the log entries with this text
LogEntries(text) ==
    {i \in 1..Len(message_queue) : message_queue[i].message.text = text}

\* the ExecuteAutomation calls that have returned, with what they returned
MethodReturns == {i \in 1..Len(busOut) : busOut[i].kind = "return"}

\* C11: every invocation of ExecuteAutomation(data) returns
\* "automation_queued" and puts exactly one DBUS_METHOD_CALL frame, with
\* method "ExecuteAutomation" and args [data], on the outbound stream: when
\* the bus thread is back in the loop and no write has failed, there are as
\* many whole DBUS_METHOD_CALL frames on the stream, and as many
\* "automation_queued" returns, as there were invocations.
C11_OneMethodCallFrame ==
    (pc["main"] = "loop" /\ ~Logged("Failed to send message to extension")) =>
        LET calls == Cardinality(LogEntries("D-Bus method called: ExecuteAutomation"))
        IN  /\ Cardinality(MethodReturns) = calls
            /\ \A i \in MethodReturns : busOut[i].args = << "automation_queued" >>
            /\ Cardinality(IntactFrames("main", "DBUS_METHOD_CALL")) = calls
            /\ \A i \in IntactFrames("main", "DBUS_METHOD_CALL") :
                   /\ stdout[i].of.method = "ExecuteAutomation"
                   /\ stdout[i].of.args \in {<< data >> : data \in AutomationData}

\* C12: ExecuteAutomation returns "automation_queued" whether or not the
\* relay of the DBUS_METHOD_CALL frame succeeded: every outcome of a call is
\* the return of that string, never an exception, and every call made has
\* returned when the bus thread is back in the loop.
C12_RelayFailureNotSurfaced ==
    /\ \A i \in MethodReturns :
           busOut[i].err = "none" /\ busOut[i].args = << "automation_queued" >>
    /\ pc["main"] = "loop" =>
           Cardinality(MethodReturns) =
               Cardinality(LogEntries("D-Bus method called: ExecuteAutomation"))

\* a call has returned although no payload of a DBUS_METHOD_CALL message was
\* ever written: its relay failed
C12_Witness ==
    /\ MethodReturns # {}
    /\ PayloadsOf("main", "DBUS_METHOD_CALL") = {}
    /\ Logged("Failed to send message to extension")

\* the call of emit_automation_signal has ended, by a return or by an exception
EmitCallEnded == pc["reader"] \in {"emit_done", "emit_raised"}

\* the string s emitted on the bus is the value v itself
IsValue(s, v) == v.t = "str" /\ v.v = s

\* C13: emitDynamic(name, args) performs exactly one bus emission:
\* AutomationCompleted(args[0]) for the name "AutomationCompleted" with at
\* least one arg, AutomationEvent(args[0], args[1]) for the name
\* "AutomationEvent" with at least two, and AutomationEvent(name,
\* jsonEncode(args)) in every other case.
C13_EmitDynamicRule ==
    EmitCallEnded =>
        /\ Len(busOut) = 1
        /\ (ev[1].t = "str" /\ ev[2].t = "arr") =>
               LET name == ev[1].v
                   args == ev[2].v
                   sent == busOut[1]
               IN  IF name = S_AutomationCompleted /\ Len(args) >= 1
                   THEN /\ sent.member = "AutomationCompleted"
                        /\ Len(sent.args) = 1
                        /\ IsValue(sent.args[1], args[1])
                   ELSE IF name = S_AutomationEvent /\ Len(args) >= 2
                   THEN /\ sent.member = "AutomationEvent"
                        /\ Len(sent.args) = 2
                        /\ IsValue(sent.args[1], args[1])
                        /\ IsValue(sent.args[2], args[2])
                   ELSE sent = Emission("AutomationEvent", << name, JsonDumps(ev[2]) >>)

\* C13, amended: for a name that is a string and args that is a list, the
\* call performs exactly one bus emission: AutomationCompleted(str(args[0]))
\* for the name "AutomationCompleted" with at least one arg,
\* AutomationEvent(str(args[0]), str(args[1])) for the name "AutomationEvent"
\* with at least two, and AutomationEvent(name, jsonEncode(args)) in every
\* other case; str leaves a string as it is and renders another value as text.
C13_EmitDynamicCoerced ==
    (EmitCallEnded /\ ev[1].t = "str" /\ ev[2].t = "arr") =>
        LET name == ev[1].v
            args == ev[2].v
        IN  busOut =
                << IF name = S_AutomationCompleted /\ Len(args) >= 1
                   THEN Emission("AutomationCompleted", << PyStr(args[1]) >>)
                   ELSE IF name = S_AutomationEvent /\ Len(args) >= 2
                   THEN Emission("AutomationEvent",
                                 << PyStr(args[1]), PyStr(args[2]) >>)
                   ELSE Emission("AutomationEvent", << name, JsonDumps(ev[2]) >>) >>

\* "AutomationEvent" was requested with one arg, a number, and the generic
\* event went out with the list encoded as JSON: AutomationEvent("AutomationEvent", "[1]")
C13_Witness ==
    /\ pc["reader"] = "emit_done"
    /\ ev = << JStr(S_AutomationEvent), JArr(<< JNum(1) >>) >>
    /\ busOut = << Emission("AutomationEvent", << S_AutomationEvent, <<91, 49, 93>> >>) >>

\* the message the read loop decoded last is a SEND_DBUS_SIGNAL request
SignalRequested ==
    /\ inmsg.t = "obj"
    /\ LET msg_type == DictGet(inmsg, S_type, JStr(S_unknown))
       IN  msg_type.t = "str" /\ msg_type.v = S_SEND_DBUS_SIGNAL

\* the signals the bridge emitted on the bus
SignalsEmitted == {i \in 1..Len(busOut) : busOut[i].kind = "signal"}

\* C14: every SEND_DBUS_SIGNAL message dispatched leads to a bus emission
\* with the message's member and args: once the read loop has handled the
\* request and gone on to find the stream closed, the signal that
\* emit_automation_signal makes of member and args is on the bus.
C14_EverySignalRequestEmitted ==
    (SignalRequested /\ rexit = "eof") =>
        LET signal_data == DictGet(inmsg, S_signal, JObj(<< >>))
            member == DictGet(signal_data, S_member, JStr(S_AutomationEvent))
            args == DictGet(signal_data, S_args, JArr(<< >>))
        IN  \E i \in SignalsEmitted : busOut[i] = emit_automation_signal(member, args)

\* what the reader thread wrote on stdout, in order
WritesOf(t) == SelectSeq(stdout, LAMBDA c : c.by = t)

\* C15: for every PING received the bridge writes exactly one PONG frame
\* carrying a timestamp, and no other frame: on the script of one PING, once
\* the read loop has handled it and found the stream closed, the reader
\* thread has written the prefix and the payload of one PONG and nothing
\* else, and these two writes are one whole frame on the stream.
C15_OnePongPerPing ==
    (script = 1 /\ rexit = "eof") =>
        /\ WritesOf("reader") =
               << Chunk("reader", "len", [type |-> "PONG", timestamp |-> TimeNow]),
                  Chunk("reader", "payload", [type |-> "PONG", timestamp |-> TimeNow]) >>
        /\ Cardinality(IntactFrames("reader", "PONG")) = 1

\* the body decodes to a JSON object whose type is none of SEND_DBUS_SIGNAL,
\* PING and GET_STATUS (an object without "type" has the type 'unknown')
UnknownType(body) ==
    LET decoded == JsonLoads(body)
    IN  /\ decoded.err = "none"
        /\ decoded.val.t = "obj"
        /\ LET msg_type == DictGet(decoded.val, S_type, JStr(S_unknown))
           IN  ~(/\ msg_type.t = "str"
                 /\ msg_type.v \in {S_SEND_DBUS_SIGNAL, S_PING, S_GET_STATUS})

\* the scripts that begin with a well-framed message of an unknown type,
\* followed by nothing or by a PING
UnknownTypeFirst ==
    {i \in ScriptIds :
        /\ WellFramed(Scripts[i][1])
        /\ UnknownType(Scripts[i][1].body)
        /\ Len(Scripts[i]) = 2 => Scripts[i][2] = Frame(TxtPing)}

\* C16: a peer message of an unknown type is only logged: on a script that
\* begins with such a message the read loop never ends by an exception,
\* nothing is emitted on the bus, the reader writes nothing but the PONG for
\* the PING that follows (nothing at all when none follows), and when the
\* loop ends at the end of the stream the unknown type is in the log and the
\* PING after it has been answered.
C16_UnknownTypeOnlyLogged ==
    script \in UnknownTypeFirst =>
        /\ rexit \in {"none", "eof", "stopped"}
        /\ busOut = << >>
        /\ \A i \in 1..Len(stdout) :
               stdout[i].by = "reader" =>
                   stdout[i].of.type = "PONG" /\ Len(Scripts[script]) = 2
        /\ Len(WritesOf("reader")) <= 2
        /\ rexit = "eof" =>
               /\ Cardinality(LogEntries("Unknown message type from extension")) = 1
               /\ Len(Scripts[script]) = 2 => PayloadsOf("reader", "PONG") # {}

\* the message {"type":"NOPE"} was logged, the PING after it answered, and
\* the loop ended at the end of the stream
C16_Witness ==
    /\ script = 13
    /\ rexit = "eof"
    /\ Logged("Unknown message type from extension")
    /\ PayloadsOf("reader", "PONG") # {}

\* C17: every log write results in an attempt to forward the entry to the
\* peer as a LOG_MESSAGE frame: when a call of log_message has returned, a
\* write of a LOG_MESSAGE message has been made on the outbound stream.
C17_LogForwarded ==
    (pc["main"] = "log_idle" /\ logClock > 0) =>
        \E i \in 1..Len(stdout) : stdout[i].of.type = "LOG_MESSAGE"

\* C18: every frame the bridge writes to the peer carries a timestamp field.
C18_EveryFrameTimestamped ==
    \A i \in 1..Len(stdout) : "timestamp" \in DOMAIN stdout[i].of

\* the requests of these kinds that failed during the construction
StartupFailures(kinds) ==
    {i \in 1..Len(busOut) : busOut[i].kind \in kinds /\ busOut[i].err # "none"}

C20_SubscriptionFailureTolerated ==
    (/\ StartupFailures({"subscribe"}) # {}
     /\ StartupFailures({"connect", "request_name"}) = {}) =>
        pc["main"] # "aborted"

(***************************************************************************)
(* The replies the read loop owes to a script, in the order of its frames. *)
(***************************************************************************)
\* the type of the reply to a message body: PONG to a PING, STATUS_UPDATE to
\* a GET_STATUS, none to anything else
ReplyType(body) ==
    LET decoded == JsonLoads(body)
        msg_type == IF decoded.err = "none" /\ decoded.val.t = "obj"
                    THEN DictGet(decoded.val, S_type, JStr(S_unknown))
                    ELSE JStr(S_unknown)
    IN  IF msg_type.t = "str" /\ msg_type.v = S_PING THEN << "PONG" >>
        ELSE IF msg_type.t = "str" /\ msg_type.v = S_GET_STATUS THEN << "STATUS_UPDATE" >>
        ELSE << >>

RECURSIVE ReplyTypes(_, _)
\* the types of the replies to frames k.. of a script
ReplyTypes(frames, k) ==
    IF k > Len(frames) THEN << >>
    ELSE ReplyType(frames[k].body) \o ReplyTypes(frames, k + 1)

RECURSIVE ChunksOf(_, _)
\* the writes that hand the messages of these types to the stream one after
\* another: for each, its length prefix, then its payload
ChunksOf(types, k) ==
    IF k > Len(types) THEN << >>
    ELSE << << "len", types[k] >>, << "payload", types[k] >> >> \o ChunksOf(types, k + 1)

\* what thread t wrote, as <<part, type of the message>>
WriteKinds(t) ==
    LET w == WritesOf(t) IN [i \in 1..Len(w) |-> << w[i].part, w[i].of.type >>]

IsPrefix(a, b) == Len(a) <= Len(b) /\ a = Take(b, Len(a))

\* the scripts whose frames are all well framed
WellFramedScripts ==
    {i \in ScriptIds : \A k \in 1..Len(Scripts[i]) : WellFramed(Scripts[i][k])}

\* C21: frames of one source appear on the outbound stream in the order in
\* which they were handed to send_to_extension: the writes of the reader
\* thread are, in order, the prefix and payload of the reply to the first
\* frame of the script, then those of the reply to the next, and so on (as
\* far as the loop has come); the main thread has written MONITOR_STARTED
\* only, prefix first.
C21_SameSourceFifo ==
    script \in WellFramedScripts =>
        /\ IsPrefix(WriteKinds("reader"), ChunksOf(ReplyTypes(Scripts[script], 1), 1))
        /\ IsPrefix(WriteKinds("main"), ChunksOf(<< "MONITOR_STARTED" >>, 1))

\* GET_STATUS and PING were answered, in this order, and the writes of the
\* main thread fell between those of the reader
C21_Witness ==
    /\ script = 2
    /\ WriteKinds("reader") = ChunksOf(<< "STATUS_UPDATE", "PONG" >>, 1)
    /\ \E i \in 2..(Len(stdout) - 1) :
           /\ stdout[i].by = "main"
           /\ stdout[i - 1].by = "reader"
           /\ stdout[i + 1].by = "reader"

\* the main thread is inside a bus callback: the return address of the
\* callback's send_to_extension call is on its stack
InBusCallback ==
    \E i \in 1..Len(stack["main"]) :
        stack["main"][i] \in {"auto_log", "firefox_log", "exec_return"}

\* the thread is at one of the two self.stdout.write statements
AtStreamWrite(t) == pc[t] \in {"send_len", "send_body"}

\* C22: a bus callback (on_automation_signal, on_firefox_signal,
\* ExecuteAutomation) never performs the outbound stream write itself: the
\* bus dispatch thread is never at a stdout write while inside a callback,
\* and no chunk of a callback's message on the stream was written by it.
C22_CallbackOnlyEnqueues ==
    /\ ~(InBusCallback /\ AtStreamWrite("main"))
    /\ \A i \in 1..Len(stdout) :
           stdout[i].by = "main" => stdout[i].of.type = "MONITOR_STARTED"

\* the frames of a signal callback written whole by the bus thread
SignalFrames == IntactFrames("main", "DBUS_AUTOMATION_SIGNAL")
                    \cup IntactFrames("main", "DBUS_FIREFOX_SIGNAL")

\* C23: each signal received on a subscribed pattern produces exactly one
\* frame, DBUS_AUTOMATION_SIGNAL or DBUS_FIREFOX_SIGNAL according to the
\* pattern, whose args are the signal's arguments as strings in their
\* original order: when the bus thread is back in the loop and no write has
\* failed, the stream holds as many whole frames of each type as signals of
\* that pattern were received, each with the arguments of a delivered signal.
C23_OneFramePerSignal ==
    (pc["main"] = "loop" /\ ~Logged("Failed to send message to extension")) =>
        /\ Cardinality(IntactFrames("main", "DBUS_AUTOMATION_SIGNAL"))
               = Cardinality(LogEntries("Automation signal received"))
        /\ Cardinality(IntactFrames("main", "DBUS_FIREFOX_SIGNAL"))
               = Cardinality(LogEntries("Firefox signal received"))
        /\ \A i \in SignalFrames :
               stdout[i].of.args \in {StrArgs(args) : args \in SignalArgs}

\* cleanup() has cleared the running flag and the process has not ended yet
StopRequested == Lifecycle = "DRAINING" /\ ~running

\* the read loop takes the length prefix of a frame off stdin and goes on to
\* read its body
FrameStarted == pc["reader"] = "r_readlen" /\ pc'["reader"] = "r_readmsg"

\* C24: once the monitor is DRAINING (cleanup has cleared the running flag),
\* no further inbound frame is accepted: the read loop does not start to read
\* another frame, so no PONG, STATUS_UPDATE or bus emission is produced for
\* one.
C24_NoFrameAcceptedWhileDraining ==
    [][StopRequested => ~FrameStarted]_vars

\* run() has gone through its startup and entered loop.run()
StartupCompleted == Lifecycle = "RUNNING"

\* C25: in every run that completes startup, exactly one MONITOR_STARTED
\* frame is written to the peer: while run() is in the loop, and no write
\* has failed, the stream holds exactly one whole MONITOR_STARTED frame.
C25_OneMonitorStarted ==
    (StartupCompleted /\ ~Logged("Failed to send message to extension")) =>
        Cardinality(IntactFrames("main", "MONITOR_STARTED")) = 1

\* the text needle occurs in the text hay
Contains(hay, needle) ==
    \E k \in 0..(Len(hay) - Len(needle)) :
        SubSeq(hay, k + 1, k + Len(needle)) = needle

\* the strings a request carries inside signal.args: the string elements of
\* a list, the string values of an object
StringsIn(args) ==
    IF args.t = "arr"
    THEN {args.v[i].v : i \in {j \in 1..Len(args.v) : args.v[j].t = "str"}}
    ELSE IF args.t = "obj"
    THEN {args.v[i][2].v : i \in {j \in 1..Len(args.v) : args.v[j][2].t = "str"}}
    ELSE {}

\* C26: a correlation id carried inside signal.args of a SEND_DBUS_SIGNAL
\* request is still contained, unchanged, in a string argument of the signal
\* emitted on the bus, on the typed emitters as on the generic fallback: when
\* emit_automation_signal has ended, every string inside args occurs in an
\* argument of an emitted signal.
C26_CorrelationIdPassedThrough ==
    EmitCallEnded =>
        \A id \in StringsIn(ev[2]) :
            \E i \in SignalsEmitted :
                \E k \in 1..Len(busOut[i].args) : Contains(busOut[i].args[k], id)

(***************************************************************************)
(* What read_native_messages does with a script when each read returns a   *)
(* whole prefix and a whole body: how the loop ends, and the replies       *)
(* written before it does.                                                 *)
(***************************************************************************)
RECURSIVE ReaderOutcome(_, _)
ReaderOutcome(frames, k) ==
    IF k > Len(frames) THEN [exit |-> "eof", replies |-> << >>]
    ELSE LET body == frames[k].body
             decoded == JsonLoads(body)
             rest == ReaderOutcome(frames, k + 1)
         IN  IF body = << >> THEN [exit |-> "empty", replies |-> << >>]
             ELSE IF decoded.err = "JSONDecodeError" THEN rest
             ELSE IF decoded.err # "none" \/ decoded.val.t # "obj"
             THEN [exit |-> "exception", replies |-> << >>]
             ELSE [exit |-> rest.exit, replies |-> ReplyType(body) \o rest.replies]

RECURSIVE TotalLen(_)
\* the number of bytes in a sequence of writes
TotalLen(writes) ==
    IF writes = << >> THEN 0 ELSE Len(Head(writes)) + TotalLen(Tail(writes))

\* the bytes of the script the read loop has not taken yet
Unread == Len(stdinBuf) + TotalLen(peerTodo)

\* the bytes of the frames after the k-th
BytesAfter(frames, k) == Len(Flatten(SubSeq(frames, k + 1, Len(frames))))

\* C27: whether the peer delivers the bytes of its frames one at a time or a
\* whole frame per write, the read loop dispatches the same decoded messages:
\* the message handed to handle_extension_message is the decoded body of a
\* frame of the script, taken when exactly the frames up to it have been
\* read; and when the loop has ended (not stopped by the running flag), it
\* has ended as on whole frames and written the same replies.
C27_BytewiseSameAsWhole ==
    script \in WellFramedScripts =>
        LET frames == Scripts[script]
            outcome == ReaderOutcome(frames, 1)
        IN  /\ pc["reader"] = "r_handle" =>
                   \E k \in 1..Len(frames) :
                       /\ Unread = BytesAfter(frames, k)
                       /\ inmsg = JsonLoads(frames[k].body).val
            /\ (pc["reader"] = "r_done" /\ rexit # "stopped") =>
                   /\ rexit = outcome.exit
                   /\ WriteKinds("reader") = ChunksOf(outcome.replies, 1)

\* the first frame, GET_STATUS, is dispatched while the peer is still sending
\* the PING after it byte by byte
C27_Witness ==
    /\ script = 2
    /\ pc["reader"] = "r_handle"
    /\ inmsg = JsonLoads(TxtGetStatus).val
    /\ peerTodo # << >>
    /\ Len(Head(peerTodo)) = 1

\* C28: for every message M handed to send_to_extension, the 4-byte
\* little-endian prefix written equals the byte count of the payload, and
\* the read procedure applied to the bytes written yields a message equal to
\* M: the bytes on the pipe are a prefix and as many bytes as it gives; the
\* length the read loop unpacks is the number of bytes left; the message it
\* decodes from them is M, and it neither rejects the payload nor raises.
C28_FrameRoundTrip ==
    /\ pc["reader"] \in {"r_readlen", "r_readmsg", "r_handle"}
    /\ (pc["main"] = "parked" /\ pc["reader"] = "r_readlen") =>
           /\ Len(stdinBuf) > PrefixLen
           /\ Unpack(Take(stdinBuf, PrefixLen)) = Len(stdinBuf) - PrefixLen
    /\ pc["reader"] = "r_readmsg" => length = Len(stdinBuf)
    /\ pc["reader"] = "r_handle" => (inmsg = ev /\ stdinBuf = << >>)

\* a message whose type holds a quote and a backslash came back as it was sent
C28_Witness ==
    /\ pc["reader"] = "r_handle"
    /\ DictGet(ev, S_type, JStr(S_unknown)) = JStr(<<34, 92>>)
    /\ inmsg = ev

\* the read loop logged a frame it could not parse before run() logged its
\* start: every bus signal of the run is received after the parse error
ParseErrorBeforeStart ==
    \E i, j \in 1..Len(message_queue) :
        /\ i < j
        /\ message_queue[i].message.text
               \in {"Invalid JSON from extension", "Error reading native messages"}
        /\ message_queue[j].message.text = "ChatGPT-buddy D-Bus monitor starting..."

\* C29: after a frame parse error on the peer stream the bus side goes on:
\* every bus signal received afterwards is still relayed as a frame.  When
\* the bus thread is back in the loop and no write has failed, the stream
\* holds one whole frame for each signal received after the parse error.
C29_RelayAfterParseError ==
    (ParseErrorBeforeStart /\ pc["main"] = "loop"
         /\ ~Logged("Failed to send message to extension")) =>
        /\ Cardinality(IntactFrames("main", "DBUS_AUTOMATION_SIGNAL"))
               = Cardinality(LogEntries("Automation signal received"))
        /\ Cardinality(IntactFrames("main", "DBUS_FIREFOX_SIGNAL"))
               = Cardinality(LogEntries("Firefox signal received"))

\* the thread is at self.message_queue.append(...) of log_message
AtLogBufferAccess(t) == pc[t] = "log_append"

\* the thread is at the test of self.running in read_native_messages
AtRunningFlagAccess(t) == pc[t] = "r_while"

\* C30: during the construction no operation accesses the log buffer or the
\* running flag before __init__ has assigned the field: no log_message call
\* made by the bus setup reaches the append on self.message_queue, and the
\* reader thread does not test self.running, while the main thread is still
\* inside setup_dbus.
C30_NoAccessBeforeInitialized ==
    ~QueueAssigned =>
        /\ ~AtLogBufferAccess("main")
        /\ ~AtRunningFlagAccess("reader")

\* no log_message call is in progress: every insertion begun has completed
NoInsertionPending == \A t \in Threads : pc[t] \in {"log_idle", "parked"}

\* C31: with the bus thread and the reader thread logging concurrently, an
\* entry whose insertion has completed stays in the buffer until a capacity
\* truncation discards it as one of the oldest: a truncation by one thread
\* never drops what the other has just appended.  So, when no insertion is
\* in progress, the buffer ends with the entry inserted last, and its
\* entries are consecutive insertions.
C31_TruncationKeepsNewest ==
    (NoInsertionPending /\ logClock > 0) =>
        /\ message_queue # << >>
        /\ \A i \in 1..Len(message_queue) :
               message_queue[i].timestamp = logClock - Len(message_queue) + i

\* the message_count of the STATUS_UPDATE replies written, in order
StatusCounts ==
    LET w == SelectSeq(stdout, LAMBDA c : c.part = "payload" /\ c.of.type = "STATUS_UPDATE")
    IN  [i \in 1..Len(w) |-> w[i].of.message_count]

\* C32: the message_count reported in successive STATUS_UPDATE replies of
\* one run never decreases.
C32_MessageCountMonotone ==
    \A i \in 1..(Len(StatusCounts) - 1) : StatusCounts[i] <= StatusCounts[i + 1]

\* C33: MONITOR_STARTED is the first frame of every run: every write of a
\* reply or of a relayed message (PONG, STATUS_UPDATE, DBUS_AUTOMATION_SIGNAL,
\* DBUS_FIREFOX_SIGNAL, DBUS_METHOD_CALL) comes after the payload of
\* MONITOR_STARTED on the stream.
C33_MonitorStartedFirst ==
    \A i \in 1..Len(stdout) :
        stdout[i].of.type # "MONITOR_STARTED" =>
            \E j \in 1..(i - 1) :
                stdout[j].part = "payload" /\ stdout[j].of.type = "MONITOR_STARTED"

\* the signals the sender scripts emitted
SignalsSent == {i \in 1..Len(busOut) : busOut[i].kind = "sent"}

\* C34: every signal that the repository's sender scripts (client test,
\* integration test, benchmark) emit on org.chatgpt.buddy.automation matches
\* the bridge's automation subscription and is relayed to the peer as a
\* DBUS_AUTOMATION_SIGNAL frame: when the bus thread is back in the loop
\* and no write has failed, the stream holds a whole frame with the
\* arguments of each signal sent.
C34_SenderSignalsRelayed ==
    (pc["main"] = "loop" /\ ~Logged("Failed to send message to extension")) =>
        \A i \in SignalsSent :
            \E k \in IntactFrames("main", "DBUS_AUTOMATION_SIGNAL") :
                stdout[k].of.args = Tail(busOut[i].args)

====
